---------------------------- MODULE Spec2Model ----------------------------
(***************************************************************************)
(* A model of the Fathom MCP server: the session/transport manager of the  *)
(* HTTP server (http-server, src/unnamed/part_001), the tool dispatcher    *)
(* (part_001 and src/src/index.ts) and the upstream client                 *)
(* (src/src/fathom-client.ts, the class that starts at line 120).          *)
(*                                                                         *)
(* Every `await` of the source is a point where other handlers of the      *)
(* event loop may run; the code between two awaits is one atomic step.     *)
(***************************************************************************)
EXTENDS Integers, Sequences, FiniteSets, TLC

(***************************************************************************)
(* Bounds of the model.                                                    *)
(***************************************************************************)
MaxTransports == 2        \* transport objects constructed in one run
MaxDispatch == 1          \* tool dispatches in flight at once
MaxItems == 2             \* meetings in one listing reply
MaxListing == 11          \* meetings in a listing reply longer than the cap
MaxHooks == 2             \* webhooks the upstream creates in one run
MaxWebhookCalls == 4      \* webhook requests the upstream answers in one run

(***************************************************************************)
(* Session identifiers.  A value is a pair <<tag, n>>: the UUID strings    *)
(* that randomUUID() returns, and what a client may put in the             *)
(* mcp-session-id header or the sessionId query parameter.                 *)
(***************************************************************************)
NoSid == <<"absent", 0>>          \* header or parameter not sent (undefined)
Forged == <<"forged", 0>>         \* a string the server never generated
Builtin == <<"constructor", 0>>   \* the name of a property of Object.prototype
Uuid(n) == <<"uuid", n>>

Uuids == {Uuid(n) : n \in 1..MaxTransports}
ClientSids == {NoSid, Forged, Builtin} \cup Uuids

\* JavaScript truthiness of the string | undefined a request carries
Truthy(sid) == sid # NoSid

\* What indexing the table yields when the key is no transport
Undefined == 0
Inherited == -1                   \* a function inherited from Object.prototype

TransportIds == 1..MaxTransports

VARIABLES
  transports,   \* the session table: session identifier -> transport object
  tr,           \* the transport objects constructed so far
  nextT,        \* number of transport objects constructed
  uuidCount,    \* number of identifiers randomUUID() has returned
  disp,         \* per transport, its tool dispatches in flight (handlers running)
  proc,         \* "running", "closing" (SIGINT handler awaiting), "exited"
  sd,           \* the SIGINT handler's loop: keys left, key awaited, outcome
  last,         \* the request handled last and its synchronous outcome
  inv,          \* a tool invocation: name, arguments, upstream replies
  env,          \* per transport, the envelope the dispatcher returned for inv
  calls,        \* per session, its running tool invocation
  heap,         \* the meeting records the running invocations hold
  boot,         \* the process's start-up: server, credential, position, exit code
  upstream      \* the upstream's webhooks: identifiers issued, those that
                \* exist, and the webhook requests it has answered

\* what a step of the dispatcher, and what a step of the session layer, leaves
\* alone; neither touches the start-up state or the upstream's webhooks
svars == <<transports, tr, nextT, uuidCount, disp, proc, sd, last, boot,
           upstream>>
dvars == <<inv, env, calls, heap, boot, upstream>>
vars == <<transports, tr, nextT, uuidCount, disp, proc, sd, last,
          inv, env, calls, heap, boot, upstream>>

(***************************************************************************)
(* The session table is a plain object: Record<string, Transport> = {}.    *)
(***************************************************************************)
EmptyTable == [k \in {} |-> 0]
Put(tbl, k, v) == [x \in (DOMAIN tbl) \cup {k} |-> IF x = k THEN v ELSE tbl[x]]
Remove(tbl, k) == [x \in (DOMAIN tbl) \ {k} |-> tbl[x]]

\* a table whose inherited property is one of its transports
LookupInheritsTransport(tbl, sid) ==
  IF sid \in DOMAIN tbl THEN tbl[sid]
  ELSE IF sid = Builtin /\ tbl # EmptyTable
  THEN tbl[CHOOSE k \in DOMAIN tbl : TRUE]
  ELSE Undefined

\* transports[sessionId]: an own property, else what the prototype gives
Lookup(tbl, sid) ==
  IF sid \in DOMAIN tbl THEN tbl[sid]
  ELSE IF sid = Builtin THEN Inherited
  ELSE Undefined

NoTransport == [kind |-> "none", sid |-> NoSid, state |-> "unused", att |-> FALSE]

\* e instanceof StreamableHTTPServerTransport / SSEServerTransport
IsStreamable(e) == e \in TransportIds /\ tr[e].kind = "streamable"
IsSse(e) == e \in TransportIds /\ tr[e].kind = "sse"

\* sessionIdGenerator: () => randomUUID(), and the SSE transport's own
\* randomUUID(): the n+1st identifier differs from the n before it
FreshUuidReused(n) == Uuid(1)
randomUUID(n) == Uuid(n + 1)

Issued == {Uuid(n) : n \in 1..uuidCount}

(***************************************************************************)
(* Requests a client can send.                                             *)
(***************************************************************************)
\* The identifiers a client can send: none, a string the server never
\* generated, the name of an inherited property, or an identifier the server
\* has issued (one not issued yet is a string it never generated).
Presentable == {NoSid, Forged, Builtin} \cup Issued

\* app.all('/mcp'): method, the JSON-RPC body's kind, mcp-session-id header.
\* A POST carries an initialize request or a tool call; GET (open the push
\* stream) and DELETE (terminate the session) carry no body.
McpShapes ==
  {<<"POST", "initialize">>, <<"POST", "tools/call">>,
   <<"GET", "none">>, <<"DELETE", "none">>}

McpReqsWith(sid) ==
  {[method |-> k[1], body |-> k[2], sid |-> sid] : k \in McpShapes}

McpReqs == UNION {McpReqsWith(sid) : sid \in Presentable}

\* app.post('/messages'): the body's kind and the sessionId query parameter
MessageReqsWith(sid) == {[body |-> b, sid |-> sid] : b \in {"tools/call", "other"}}

MessageReqs == UNION {MessageReqsWith(sid) : sid \in Presentable}

\* app.get('/sse'): a sessionId query parameter a client may add
SseReqs == {NoSid, Forged}

isInitializeRequest(body) == body = "initialize"

(***************************************************************************)
(* app.all('/mcp'), lines 359-413: which transport takes the request.      *)
(***************************************************************************)
McpRouteNoInitCheck(tbl, r) ==
  LET e == Lookup(tbl, r.sid) IN
  IF Truthy(r.sid) /\ e # Undefined
  THEN IF IsStreamable(e) THEN [act |-> "reuse", t |-> e]
                          ELSE [act |-> "mismatch", t |-> 0]
  ELSE IF ~Truthy(r.sid) THEN [act |-> "create", t |-> 0]
  ELSE [act |-> "reject", t |-> 0]

McpRouteCoerce(tbl, r) ==
  LET e == Lookup(tbl, r.sid) IN
  IF Truthy(r.sid) /\ e # Undefined
  THEN IF e \in TransportIds THEN [act |-> "reuse", t |-> e]
                             ELSE [act |-> "mismatch", t |-> 0]
  ELSE IF ~Truthy(r.sid) /\ r.method = "POST" /\ isInitializeRequest(r.body)
  THEN [act |-> "create", t |-> 0]
  ELSE [act |-> "reject", t |-> 0]

McpRouteIgnoresId(tbl, r) ==
  LET e == Lookup(tbl, r.sid) IN
  IF Truthy(r.sid) /\ e # Undefined
  THEN IF IsStreamable(e) THEN [act |-> "reuse", t |-> e]
                          ELSE [act |-> "mismatch", t |-> 0]
  ELSE IF r.method = "POST" /\ isInitializeRequest(r.body)
  THEN [act |-> "create", t |-> 0]
  ELSE [act |-> "reject", t |-> 0]

McpRouteRecreate(tbl, r) ==
  LET e == Lookup(tbl, r.sid) IN
  IF r.method = "POST" /\ isInitializeRequest(r.body)
  THEN [act |-> "create", t |-> 0]
  ELSE IF Truthy(r.sid) /\ e # Undefined
  THEN IF IsStreamable(e) THEN [act |-> "reuse", t |-> e]
                          ELSE [act |-> "mismatch", t |-> 0]
  ELSE [act |-> "reject", t |-> 0]

McpRoute(tbl, r) ==
  LET e == Lookup(tbl, r.sid) IN
  IF Truthy(r.sid) /\ e # Undefined
  THEN IF IsStreamable(e) THEN [act |-> "reuse", t |-> e]
                          ELSE [act |-> "mismatch", t |-> 0]
  ELSE IF ~Truthy(r.sid) /\ r.method = "POST" /\ isInitializeRequest(r.body)
  THEN [act |-> "create", t |-> 0]
  ELSE [act |-> "reject", t |-> 0]

(***************************************************************************)
(* app.post('/messages'), lines 450-466.                                   *)
(***************************************************************************)
MessagesRoute(tbl, r) ==
  LET existingTransport == Lookup(tbl, r.sid) IN
  IF IsSse(existingTransport) THEN [act |-> "reuse", t |-> existingTransport]
  ELSE IF existingTransport # Undefined THEN [act |-> "mismatch", t |-> 0]
  ELSE [act |-> "notransport", t |-> 0]

(***************************************************************************)
(* Close handlers.                                                         *)
(***************************************************************************)
OnCloseKeepsEntry(tbl, sid) == tbl

\* transport.onclose, lines 391-397
OnClose(tbl, sid) ==
  IF Truthy(sid) /\ Lookup(tbl, sid) # Undefined THEN Remove(tbl, sid) ELSE tbl

\* res.on("close"), lines 441-443
ResClose(tbl, sid) == Remove(tbl, sid)

\* The key a new event-stream transport is registered under, lines 438-439:
\* the identifier the transport drew itself, whatever the request carried
SseKeyFromQuery(q, n) == IF Truthy(q) THEN q ELSE randomUUID(n)
SseKey(q, n) == randomUUID(n)

\* The key onsessioninitialized registers under, lines 383-387
McpKey(n) == randomUUID(n)

(***************************************************************************)
(* Tool dispatches.  The handler of CallToolRequest (lines 137-328) is an  *)
(* async function: it starts when the transport hands it the frame and     *)
(* returns its envelope when its upstream calls have answered.  The        *)
(* transport then sends the envelope if it is still open.                  *)
(***************************************************************************)
InFlight(t) == disp[t] > 0
Total(f) == LET S[n \in 0..MaxTransports] ==
                  IF n = 0 THEN 0 ELSE S[n - 1] + f[n]
            IN S[MaxTransports]
CanDispatch == Total(disp) < MaxDispatch
StartDispatch(t) == [disp EXCEPT ![t] = @ + 1]

\* What becomes of the envelope a handler returns: the transport sends it
\* when it is open, and otherwise it is dropped
Deliver(state) == IF state = "active" THEN "delivered" ELSE "discarded"

Alive == proc # "exited"

Resp(ep, sid, status, by, why) ==
  [ep |-> ep, sid |-> sid, status |-> status, by |-> by, why |-> why]

\* for-in over the table while it is being iterated: a key added during the
\* loop may or may not be visited
Enumerated(k) ==
  IF proc = "closing"
  THEN \E seen \in BOOLEAN :
         sd' = [sd EXCEPT !.pending = IF seen THEN @ \cup {k} ELSE @]
  ELSE sd' = sd

(***************************************************************************)
(* app.all('/mcp', ...), lines 354-430, up to its first await.             *)
(***************************************************************************)
McpRequest(r) ==
  /\ UNCHANGED dvars
  /\ Alive
  /\ LET d == McpRoute(transports, r) IN
     CASE d.act = "reuse" ->
            \* line 416: transport.handleRequest(req, res, req.body)
            IF r.method = "DELETE"
            THEN /\ tr' = [tr EXCEPT ![d.t].state = "closed"]
                 /\ transports' = OnClose(transports, tr[d.t].sid)
                 /\ last' = Resp("/mcp", r.sid, 200, d.t, "terminated")
                 /\ UNCHANGED <<nextT, uuidCount, disp, proc, sd>>
            ELSE IF r.method = "POST" /\ r.body = "tools/call"
            THEN /\ CanDispatch
                 /\ disp' = StartDispatch(d.t)
                 /\ last' = Resp("/mcp", r.sid, 200, d.t, "dispatched")
                 /\ UNCHANGED <<transports, tr, nextT, uuidCount, proc, sd>>
            ELSE IF r.method = "POST" /\ isInitializeRequest(r.body)
            THEN /\ last' = Resp("/mcp", r.sid, 400, d.t, "already-initialized")
                 /\ UNCHANGED <<transports, tr, nextT, uuidCount, disp, proc, sd>>
            ELSE /\ last' = Resp("/mcp", r.sid, 200, d.t, "handled")
                 /\ UNCHANGED <<transports, tr, nextT, uuidCount, disp, proc, sd>>
       [] d.act = "mismatch" ->
            /\ last' = Resp("/mcp", r.sid, 400, 0, "mismatch")
            /\ UNCHANGED <<transports, tr, nextT, uuidCount, disp, proc, sd>>
       [] d.act = "create" ->
            \* lines 382-401: new transport, onclose, createMcpServer, connect
            /\ nextT < MaxTransports
            /\ nextT' = nextT + 1
            /\ tr' = [tr EXCEPT ![nextT + 1] =
                        [kind |-> "streamable", sid |-> NoSid,
                         state |-> "connecting", att |-> FALSE]]
            /\ last' = Resp("/mcp", r.sid, 0, nextT + 1, "connecting")
            /\ UNCHANGED <<transports, uuidCount, disp, proc, sd>>
       [] d.act = "reject" ->
            /\ last' = Resp("/mcp", r.sid, 400, 0, "no-session")
            /\ UNCHANGED <<transports, tr, nextT, uuidCount, disp, proc, sd>>

McpConnectedAlwaysRegisters(t, accepted) ==
  /\ UNCHANGED dvars
  /\ Alive
  /\ tr[t].state = "connecting"
  /\ LET sessionId == McpKey(uuidCount) IN
     /\ uuidCount' = uuidCount + 1
     /\ tr' = [tr EXCEPT ![t].sid = sessionId,
                         ![t].state = IF accepted THEN "active" ELSE "refused"]
     /\ transports' = Put(transports, sessionId, t)
     /\ Enumerated(sessionId)
     /\ last' = Resp("/mcp", NoSid, IF accepted THEN 200 ELSE 400, t,
                     IF accepted THEN "initialized" ELSE "refused")
  /\ UNCHANGED <<nextT, disp, proc>>

(***************************************************************************)
(* The creation path after `await server.connect(transport)`: line 416     *)
(* hands the initialize request to the new transport, which either         *)
(* initializes (draws its identifier and calls onsessioninitialized,       *)
(* lines 383-387) or refuses the request and stays without identifier.     *)
(***************************************************************************)
McpConnected(t, accepted) ==
  /\ UNCHANGED dvars
  /\ Alive
  /\ tr[t].state = "connecting"
  /\ IF accepted
     THEN LET sessionId == McpKey(uuidCount) IN
          /\ uuidCount' = uuidCount + 1
          /\ tr' = [tr EXCEPT ![t].sid = sessionId, ![t].state = "active"]
          /\ transports' = Put(transports, sessionId, t)
          /\ Enumerated(sessionId)
          /\ last' = Resp("/mcp", NoSid, 200, t, "initialized")
     ELSE /\ tr' = [tr EXCEPT ![t].state = "refused"]
          /\ last' = Resp("/mcp", NoSid, 400, t, "refused")
          /\ UNCHANGED <<transports, uuidCount, sd>>
  /\ UNCHANGED <<nextT, disp, proc>>

(***************************************************************************)
(* app.get('/sse', ...), lines 435-447.                                    *)
(***************************************************************************)
SseConnect(q) ==
  /\ UNCHANGED dvars
  /\ Alive
  /\ nextT < MaxTransports
  /\ LET sessionId == SseKey(q, uuidCount) IN
     /\ nextT' = nextT + 1
     /\ uuidCount' = uuidCount + 1
     /\ tr' = [tr EXCEPT ![nextT + 1] =
                 [kind |-> "sse", sid |-> sessionId, state |-> "active", att |-> FALSE]]
     /\ transports' = Put(transports, sessionId, nextT + 1)
     /\ Enumerated(sessionId)
     /\ last' = Resp("/sse", q, 200, nextT + 1, "connected")
  /\ UNCHANGED <<disp, proc>>

(***************************************************************************)
(* app.post("/messages", ...), lines 449-467.                              *)
(***************************************************************************)
MessagesRequest(r) ==
  /\ UNCHANGED dvars
  /\ Alive
  /\ LET d == MessagesRoute(transports, r) IN
     CASE d.act = "reuse" ->
            \* line 454: existingTransport.handlePostMessage(req, res, req.body)
            IF tr[d.t].state # "active"
            THEN /\ last' = Resp("/messages", r.sid, 500, d.t, "not-established")
                 /\ UNCHANGED disp
            ELSE IF r.body = "tools/call"
            THEN /\ CanDispatch
                 /\ disp' = StartDispatch(d.t)
                 /\ last' = Resp("/messages", r.sid, 202, d.t, "dispatched")
            ELSE /\ last' = Resp("/messages", r.sid, 202, d.t, "handled")
                 /\ UNCHANGED disp
       [] d.act = "mismatch" ->
            /\ last' = Resp("/messages", r.sid, 400, 0, "mismatch")
            /\ UNCHANGED disp
       [] d.act = "notransport" ->
            /\ last' = Resp("/messages", r.sid, 400, 0, "no-session")
            /\ UNCHANGED disp
  /\ UNCHANGED <<transports, tr, nextT, uuidCount, proc, sd>>

(***************************************************************************)
(* The "close" event of an event-stream response, lines 441-443: the       *)
(* client went away, or the response was ended by transport.close().       *)
(***************************************************************************)
SseDisconnect(t) ==
  /\ UNCHANGED dvars
  /\ Alive
  /\ tr[t].kind = "sse"
  /\ tr[t].state \in {"active", "ended"}
  /\ tr' = [tr EXCEPT ![t].state = "closed"]
  /\ transports' = ResClose(transports, tr[t].sid)
  /\ UNCHANGED <<nextT, uuidCount, disp, proc, sd, last>>

(***************************************************************************)
(* A tool handler returns its envelope (a result, or the error envelope    *)
(* of the catch at lines 316-327); the transport sends it if still open.   *)
(***************************************************************************)
\* a handler that ends the session it answered
DispatchFinishDropsSession(t) ==
  /\ UNCHANGED dvars
  /\ Alive
  /\ InFlight(t)
  /\ disp' = [disp EXCEPT ![t] = @ - 1]
  /\ last' = Resp("dispatch", tr[t].sid, 0, t, Deliver(tr[t].state))
  /\ transports' = Remove(transports, tr[t].sid)
  /\ UNCHANGED <<tr, nextT, uuidCount, proc, sd>>

DispatchFinish(t) ==
  /\ UNCHANGED dvars
  /\ Alive
  /\ InFlight(t)
  /\ disp' = [disp EXCEPT ![t] = @ - 1]
  /\ last' = Resp("dispatch", tr[t].sid, 0, t, Deliver(tr[t].state))
  /\ UNCHANGED <<transports, tr, nextT, uuidCount, proc, sd>>

(***************************************************************************)
(* process.on('SIGINT', ...), lines 504-520.  The for-in loop visits the   *)
(* keys in insertion order, which is the order the identifiers were drawn  *)
(* in, and skips a key deleted before it is reached.  Each iteration calls *)
(* close() on the transport and awaits it.                                 *)
(***************************************************************************)
FirstKey(keys) == CHOOSE k \in keys : \A j \in keys : k[2] <= j[2]

\* line 511, transports[sessionId].close(): a streamable transport runs its
\* onclose; an event-stream transport ends its response, whose "close"
\* event follows; a close that throws leaves the transport as it was
CloseTr(trs, t, ok) ==
  [trs EXCEPT ![t].att = TRUE,
              ![t].state = IF ~ok THEN @
                           ELSE IF trs[t].kind = "streamable" THEN "closed"
                           ELSE "ended"]

CloseTbl(tbl, t, ok) ==
  IF ok /\ tr[t].kind = "streamable" THEN OnClose(tbl, tr[t].sid) ELSE tbl

\* The keys the loop has still to visit
ToVisit(pending, tbl) == pending \cap DOMAIN tbl

Sigint(ok) ==
  /\ UNCHANGED dvars
  /\ proc = "running"
  /\ LET keys == ToVisit(DOMAIN transports, transports) IN
     IF keys = {}
     THEN /\ proc' = "exited"
          /\ UNCHANGED <<transports, tr, sd>>
     ELSE LET k == FirstKey(keys)
              t == transports[k] IN
          /\ proc' = "closing"
          /\ tr' = CloseTr(tr, t, ok)
          /\ transports' = CloseTbl(transports, t, ok)
          /\ sd' = [pending |-> keys \ {k}, cur |-> k, ok |-> ok]
  /\ UNCHANGED <<nextT, uuidCount, disp, last>>

\* After the await of line 511: line 512 (or the catch of 513-515), then the
\* next iteration up to its await, or lines 518-519 when no key is left:
\* process.exit(0) ends every handler and every response of the process
ShutdownResume(ok) ==
  /\ UNCHANGED dvars
  /\ proc = "closing"
  /\ LET tbl == IF sd.ok THEN Remove(transports, sd.cur) ELSE transports
         keys == ToVisit(sd.pending, tbl) IN
     IF keys = {}
     THEN /\ proc' = "exited"
          /\ transports' = tbl
          /\ sd' = [pending |-> {}, cur |-> NoSid, ok |-> TRUE]
          /\ last' = Resp("none", NoSid, 0, 0, "none")
          /\ disp' = [t \in TransportIds |-> 0]
          /\ UNCHANGED tr
     ELSE LET k == FirstKey(keys)
              t == tbl[k] IN
          /\ proc' = "closing"
          /\ tr' = CloseTr(tr, t, ok)
          /\ transports' = CloseTbl(tbl, t, ok)
          /\ sd' = [pending |-> keys \ {k}, cur |-> k, ok |-> ok]
          /\ UNCHANGED <<disp, last>>
  /\ UNCHANGED <<nextT, uuidCount>>

(***************************************************************************)
(* The tool dispatcher and the upstream client.                            *)
(*                                                                         *)
(* JavaScript values are tokens, each of one type: the strings, the        *)
(* booleans and the numbers below.  A property that is undefined is        *)
(* Absent.  Strings are single letters ("A" is the upper case of "a"), the *)
(* two-letter string "ab" and opaque identifiers: one string includes      *)
(* another when they are equal, when the other is empty, or when it is     *)
(* "ab" and the other is one of its letters.                               *)
(***************************************************************************)
Absent == "absent"
StringVals ==
  {"", "a", "A", "b", "ab", "Ab", "r1", "r2", "c1", "m", "t1", "u1", "w1",
   "w2", "w3"}
BooleanVals == {"true", "false"}
NumberVals == {"-1", "0", "1", "2", "50"}
MeetingTypes == {"all", "internal", "external"}

NumOf(v) ==
  CASE v = "-1" -> -1 [] v = "0" -> 0 [] v = "1" -> 1 [] v = "2" -> 2 [] OTHER -> 50

toLowerCase(s) == IF s = "A" THEN "a" ELSE IF s = "Ab" THEN "ab" ELSE s
includes(text, sub) ==
  sub = "" \/ text = sub \/ (text = "ab" /\ sub \in {"a", "b"})

\* a || b
OrElse(a, b) == IF a \in {Absent, ""} THEN b ELSE a

Min(a, b) == IF a <= b THEN a ELSE b

\* Array.prototype.slice(0, n)
Slice(seq, n) ==
  IF n >= 0 THEN SubSeq(seq, 1, Min(n, Len(seq)))
  ELSE SubSeq(seq, 1, IF Len(seq) + n > 0 THEN Len(seq) + n ELSE 0)

Ok(v) == [throws |-> FALSE, value |-> v]
Throw(m) == [throws |-> TRUE, message |-> m]

\* an error message: its fixed text and the values interpolated into it
Msg(text, p1, p2) == <<text, p1, p2>>

(***************************************************************************)
(* Replies of the upstream API.  A failed call carries the HTTP status     *)
(* ("none": no response at all) and the message field of the error body.   *)
(***************************************************************************)
Failures ==
  {[ok |-> FALSE, status |-> s, message |-> m] :
     s \in {"none", "401", "429", "500"}, m \in {Absent, "m"}}

Meetings ==
  [title : {"a", "b"}, meeting_title : {Absent}, default_summary : {Absent},
   action_items : {<<>>}, recording_id : {Absent, "r1"}, transcript : {Absent}]

SeqsUpTo(S, n) == UNION {[1..k -> S] : k \in 0..n}

ListingReplies ==
  Failures \cup
  {[ok |-> TRUE, data |-> [items |-> its, next_cursor |-> c]] :
     its \in SeqsUpTo(Meetings, MaxItems), c \in {Absent, "c1"}}

\* GET /recordings/:id/transcript: a transcript (segments or a string, as
\* the text they render to), a body of another shape, an error status, or
\* no response
TranscriptReplies ==
  {[k |-> "text", v |-> t] : t \in {"a", "A", "b", ""}}
    \cup {[k |-> "status", v |-> s] : s \in {"404", "401", "403", "429", "500"}}
    \cup {[k |-> "unexpected", v |-> ""], [k |-> "network", v |-> ""]}

(***************************************************************************)
(* FathomClient (fathom-client.ts, lines 120-370).                         *)
(***************************************************************************)
handleError(err) ==
  IF err.status = "429"
  THEN Msg("Rate limit exceeded. Please try again later.", "", "")
  ELSE IF err.status = "401"
  THEN Msg("Invalid API key. Please check your Fathom API key.", "", "")
  ELSE IF err.status # "none" /\ err.message # Absent
  THEN Msg("Fathom API error: ", err.message, "")
  ELSE Msg("AxiosError", err.status, "")

listMeetings(reply) ==
  IF reply.ok THEN Ok(reply.data) ELSE Throw(handleError(reply))

getMeetingTranscriptSwallows(recordingId, reply) ==
  IF reply.k = "text" THEN Ok(reply.v) ELSE Ok("")

getMeetingTranscriptRethrows(recordingId, reply) ==
  IF reply.k = "text" THEN Ok(reply.v)
  ELSE Throw(Msg("AxiosError", recordingId, reply.v))

getMeetingTranscript(recordingId, reply) ==
  CASE reply.k = "text" -> Ok(reply.v)
    [] reply.k = "unexpected" -> Ok("")
    [] reply.k = "status" ->
         IF reply.v = "404" THEN Ok("")
         ELSE IF reply.v \in {"401", "403"}
         THEN Throw(Msg("Authentication error accessing transcript ",
                        recordingId, reply.v))
         ELSE IF reply.v = "429"
         THEN Throw(Msg("Rate limit exceeded while fetching transcript ",
                        recordingId, ""))
         ELSE Ok("")
    [] OTHER -> Ok("")

listTeams(reply) ==
  IF reply.ok THEN Ok(reply.data) ELSE Throw(handleError(reply))

listTeamMembers(reply) ==
  IF reply.ok THEN Ok(reply.data) ELSE Throw(handleError(reply))

createWebhook(reply) ==
  IF reply.ok THEN Ok(reply.data) ELSE Throw(handleError(reply))

deleteWebhookSwallows(reply) == Ok(Absent)

deleteWebhook(reply) ==
  IF reply.ok THEN Ok(Absent) ELSE Throw(handleError(reply))

maxTranscriptsUncapped == MaxListing + 1

maxTranscripts == 10

\* the positions of meetingsWithRecordingId in meetingsToSearch
WithRecordingId(meetings) ==
  {i \in 1..Len(meetings) : meetings[i].recording_id # Absent}

\* lines 178-184: one fetch of the batch has returned a transcript
Attached(meeting, transcript) ==
  IF transcript # "" THEN [meeting EXCEPT !.transcript = transcript]
  ELSE meeting

\* field?.toLowerCase().includes(searchLower)
FieldMatch(field, searchLower) ==
  field # Absent /\ includes(toLowerCase(field), searchLower)

MetadataMatchTitleOnly(meeting, searchLower) ==
  FieldMatch(meeting.title, searchLower)

\* titleMatch || summaryMatch || actionItemsMatch; an action item matches
\* only when it is a string
MetadataMatch(meeting, searchLower) ==
  \/ FieldMatch(meeting.title, searchLower)
  \/ FieldMatch(meeting.meeting_title, searchLower)
  \/ FieldMatch(meeting.default_summary, searchLower)
  \/ \E k \in 1..Len(meeting.action_items) :
       /\ meeting.action_items[k].string
       /\ includes(toLowerCase(meeting.action_items[k].text), searchLower)

TranscriptMatch(meeting, searchLower) ==
  FieldMatch(meeting.transcript, searchLower)

\* the filter over the meetings whose transcript was asked for
FilterWithTranscriptRecordedOnly(meetings, searchLower) ==
  SelectSeq(meetings, LAMBDA m : /\ m.recording_id # Absent
                                 /\ \/ MetadataMatch(m, searchLower)
                                    \/ TranscriptMatch(m, searchLower))

\* lines 201-211
FilterWithTranscript(meetings, searchLower) ==
  SelectSeq(meetings, LAMBDA m : MetadataMatch(m, searchLower)
                                   \/ TranscriptMatch(m, searchLower))

FilterMetadataCapped(meetings, searchLower) ==
  SelectSeq(Slice(meetings, maxTranscripts),
            LAMBDA m : MetadataMatch(m, searchLower))

\* lines 215-224
FilterMetadata(meetings, searchLower) ==
  SelectSeq(meetings, LAMBDA m : MetadataMatch(m, searchLower))

(***************************************************************************)
(* searchMeetings run to its end against a listing reply and the replies   *)
(* of the transcript fetches in the order they arrived, each <<position,   *)
(* reply>>.  Promise.all rejects with the first rejection.                 *)
(***************************************************************************)
RECURSIVE Settle(_, _, _)
Settle(meetings, arrivals, k) ==
  IF k > Len(arrivals) THEN Ok(meetings)
  ELSE LET i == arrivals[k][1]
           t == getMeetingTranscript(meetings[i].recording_id, arrivals[k][2])
       IN IF t.throws THEN t
          ELSE Settle([meetings EXCEPT ![i] = Attached(@, t.value)],
                      arrivals, k + 1)

searchMeetings(searchTerm, includeTranscript, reply, arrivals) ==
  LET searchLower == toLowerCase(searchTerm)
      response == listMeetings(reply)
  IN IF response.throws THEN response
     ELSE IF includeTranscript
     THEN LET meetingsToSearch == Slice(response.value.items, maxTranscripts)
              settled == Settle(meetingsToSearch, arrivals, 1)
          IN IF settled.throws THEN settled
             ELSE Ok(FilterWithTranscript(settled.value, searchLower))
     ELSE Ok(FilterMetadata(response.value.items, searchLower))

(***************************************************************************)
(* The zod schemas, as data: the required fields, the type of every field  *)
(* and the defaults.  parse() fails when the argument object is missing,   *)
(* lacks a required field or holds a value of another type; otherwise it   *)
(* returns the fields with the defaults filled in.                         *)
(***************************************************************************)
NoDefaults == [f \in {} |-> Absent]
NoArguments == [arguments |-> "undefined"]

HasType(v, ty) ==
  CASE ty = "string" -> v \in StringVals
    [] ty = "boolean" -> v \in BooleanVals
    [] ty = "number" -> v \in NumberVals
    [] OTHER -> v \in MeetingTypes

Parse(schema, args) ==
  IF \/ args = NoArguments
     \/ \E f \in schema.required : f \notin DOMAIN args
     \/ \E f \in DOMAIN args \cap DOMAIN schema.types :
          ~HasType(args[f], schema.types[f])
  THEN Throw(Msg("ZodError", "", ""))
  ELSE Ok([f \in DOMAIN schema.types |->
             IF f \in DOMAIN args THEN args[f]
             ELSE IF f \in DOMAIN schema.defaults THEN schema.defaults[f]
             ELSE Absent])

(***************************************************************************)
(* The HTTP server's schemas (part_001, lines 27-64) and its CallTool      *)
(* handler (lines 137-328).                                                *)
(***************************************************************************)
HttpSchemas ==
  [list_meetings |->
     [required |-> {},
      types |-> [created_after |-> "string", include_transcript |-> "boolean",
                 meeting_type |-> "enum", limit |-> "number"],
      defaults |-> [include_transcript |-> "false", meeting_type |-> "all",
                    limit |-> "50"]],
   search_meetings |->
     [required |-> {"search_term"},
      types |-> [search_term |-> "string", include_transcript |-> "boolean"],
      defaults |-> [include_transcript |-> "true"]],
   get_meeting_transcript |->
     [required |-> {"recording_id"},
      types |-> [recording_id |-> "string", summarize |-> "boolean"],
      defaults |-> [summarize |-> "false"]],
   list_team_members |->
     [required |-> {"team_id"},
      types |-> [team_id |-> "string"],
      defaults |-> NoDefaults],
   create_webhook |->
     [required |-> {"url"},
      types |-> [url |-> "string", include_transcript |-> "boolean",
                 include_summary |-> "boolean",
                 include_action_items |-> "boolean"],
      defaults |-> [include_transcript |-> "false", include_summary |-> "true",
                    include_action_items |-> "true"]],
   delete_webhook |->
     [required |-> {"webhook_id"},
      types |-> [webhook_id |-> "string"],
      defaults |-> NoDefaults]]

HttpCaughtUnflagged(message) ==
  [isError |-> FALSE, content |-> [error |-> message]]

\* lines 316-327
HttpCaught(message) == [isError |-> TRUE, content |-> [error |-> message]]

HttpResult(content) == [isError |-> FALSE, content |-> content]

\* lines 149-173
HttpListResult(params, data) ==
  LET limit == IF NumOf(params.limit) = 0 THEN 50 ELSE NumOf(params.limit)
      meetings == Slice(data.items, limit)
  IN HttpResult(
       [total_found |-> Len(data.items),
        showing |-> Len(meetings),
        meetings |->
          [i \in 1..Len(meetings) |->
             [title |-> OrElse(meetings[i].title, meetings[i].meeting_title),
              recording_id |-> meetings[i].recording_id,
              summary |-> meetings[i].default_summary,
              action_items |-> meetings[i].action_items,
              transcript |-> IF params.include_transcript = "true"
                             THEN meetings[i].transcript ELSE Absent]],
        has_more |-> data.next_cursor # Absent])

\* the result labelled by the metadata first
HttpSearchResultMetadataFirst(params, meetings) ==
  HttpResult(
    [search_term |-> params.search_term,
     total_found |-> Len(meetings),
     meetings |->
       [i \in 1..Len(meetings) |->
          [title |-> OrElse(meetings[i].title, meetings[i].meeting_title),
           recording_id |-> meetings[i].recording_id,
           summary |-> meetings[i].default_summary,
           action_items |-> meetings[i].action_items,
           transcript |-> IF params.include_transcript = "true"
                          THEN meetings[i].transcript ELSE Absent,
           relevance |->
             IF MetadataMatch(meetings[i], toLowerCase(params.search_term))
             THEN "Found in title/summary"
             ELSE "Found in transcript"]]])

\* lines 186-210
HttpSearchResult(params, meetings) ==
  HttpResult(
    [search_term |-> params.search_term,
     total_found |-> Len(meetings),
     meetings |->
       [i \in 1..Len(meetings) |->
          [title |-> OrElse(meetings[i].title, meetings[i].meeting_title),
           recording_id |-> meetings[i].recording_id,
           summary |-> meetings[i].default_summary,
           action_items |-> meetings[i].action_items,
           transcript |-> IF params.include_transcript = "true"
                          THEN meetings[i].transcript ELSE Absent,
           relevance |->
             IF /\ params.include_transcript = "true"
                /\ TranscriptMatch(meetings[i], toLowerCase(params.search_term))
             THEN "Found in transcript"
             ELSE "Found in title/summary"]]])

\* lines 141-174
HttpListMeetings(args, up) ==
  LET p == Parse(HttpSchemas.list_meetings, args) IN
  IF p.throws THEN HttpCaught(p.message)
  ELSE LET response == listMeetings(up.reply) IN
       IF response.throws THEN HttpCaught(response.message)
       ELSE HttpListResult(p.value, response.value)

\* lines 176-211
HttpSearchMeetings(args, up) ==
  LET p == Parse(HttpSchemas.search_meetings, args) IN
  IF p.throws THEN HttpCaught(p.message)
  ELSE LET meetings == searchMeetings(p.value.search_term,
                                      p.value.include_transcript = "true",
                                      up.reply, up.arrivals)
       IN IF meetings.throws THEN HttpCaught(meetings.message)
          ELSE HttpSearchResult(p.value, meetings.value)

\* the prefix put before the test for an empty transcript
HttpGetMeetingTranscriptPrefixFirst(args, up) ==
  LET p == Parse(HttpSchemas.get_meeting_transcript, args) IN
  IF p.throws THEN HttpCaught(p.message)
  ELSE LET transcript == getMeetingTranscript(p.value.recording_id, up.reply)
       IN IF transcript.throws THEN HttpCaught(transcript.message)
          ELSE IF p.value.summarize = "true"
          THEN HttpResult([text |-> Msg("Please summarize this meeting transcript:",
                                        transcript.value, "")])
          ELSE IF transcript.value = ""
          THEN HttpResult([text |-> Msg("No transcript available for recording ",
                                        p.value.recording_id, "")])
          ELSE HttpResult([text |-> Msg("", transcript.value, "")])

\* lines 213-238
HttpGetMeetingTranscript(args, up) ==
  LET p == Parse(HttpSchemas.get_meeting_transcript, args) IN
  IF p.throws THEN HttpCaught(p.message)
  ELSE LET transcript == getMeetingTranscript(p.value.recording_id, up.reply)
       IN IF transcript.throws THEN HttpCaught(transcript.message)
          ELSE IF transcript.value = ""
          THEN HttpResult([text |-> Msg("No transcript available for recording ",
                                        p.value.recording_id, "")])
          ELSE IF p.value.summarize = "true"
          THEN HttpResult([text |-> Msg("Please summarize this meeting transcript:",
                                        transcript.value, "")])
          ELSE HttpResult([text |-> Msg("", transcript.value, "")])

\* lines 240-255
HttpListTeams(args, up) ==
  LET response == listTeams(up.reply) IN
  IF response.throws THEN HttpCaught(response.message)
  ELSE HttpResult([total_teams |-> Len(response.value.items),
                   teams |-> response.value.items,
                   has_more |-> response.value.next_cursor # Absent])

\* lines 257-275
HttpListTeamMembers(args, up) ==
  LET p == Parse(HttpSchemas.list_team_members, args) IN
  IF p.throws THEN HttpCaught(p.message)
  ELSE LET response == listTeamMembers(up.reply) IN
       IF response.throws THEN HttpCaught(response.message)
       ELSE HttpResult([team_id |-> p.value.team_id,
                        total_members |-> Len(response.value.items),
                        members |-> response.value.items,
                        has_more |-> response.value.next_cursor # Absent])

\* lines 277-294
HttpCreateWebhook(args, up) ==
  LET p == Parse(HttpSchemas.create_webhook, args) IN
  IF p.throws THEN HttpCaught(p.message)
  ELSE LET response == createWebhook(up.reply) IN
       IF response.throws THEN HttpCaught(response.message)
       ELSE HttpResult([webhook |-> response.value.webhook,
                        secret |-> response.value.secret,
                        note |-> "Save this secret securely"])

\* lines 296-313
HttpDeleteWebhook(args, up) ==
  LET p == Parse(HttpSchemas.delete_webhook, args) IN
  IF p.throws THEN HttpCaught(p.message)
  ELSE LET response == deleteWebhook(up.reply) IN
       IF response.throws THEN HttpCaught(response.message)
       ELSE HttpResult([success |-> TRUE,
                        webhook_id |-> p.value.webhook_id,
                        message |-> "Webhook deleted successfully"])

CallToolHttp(name, args, up) ==
  CASE name = "list_meetings" -> HttpListMeetings(args, up)
    [] name = "search_meetings" -> HttpSearchMeetings(args, up)
    [] name = "get_meeting_transcript" -> HttpGetMeetingTranscript(args, up)
    [] name = "list_teams" -> HttpListTeams(args, up)
    [] name = "list_team_members" -> HttpListTeamMembers(args, up)
    [] name = "create_webhook" -> HttpCreateWebhook(args, up)
    [] name = "delete_webhook" -> HttpDeleteWebhook(args, up)
    [] OTHER -> HttpCaught(Msg("Unknown tool: ", name, ""))

(***************************************************************************)
(* The stdio server's schemas (index.ts, lines 22-59) and its CallTool     *)
(* handler (lines 131-322).                                                *)
(***************************************************************************)
StdioSchemas ==
  [list_meetings |->
     [required |-> {},
      types |-> [created_after |-> "string", include_transcript |-> "boolean",
                 meeting_type |-> "enum", limit |-> "number"],
      defaults |-> [include_transcript |-> "false", meeting_type |-> "all",
                    limit |-> "50"]],
   search_meetings |->
     [required |-> {"search_term"},
      types |-> [search_term |-> "string", include_transcript |-> "boolean"],
      defaults |-> [include_transcript |-> "true"]],
   get_meeting_transcript |->
     [required |-> {"recording_id"},
      types |-> [recording_id |-> "string", summarize |-> "boolean"],
      defaults |-> [summarize |-> "false"]],
   list_team_members |->
     [required |-> {"team_id"},
      types |-> [team_id |-> "string"],
      defaults |-> NoDefaults],
   create_webhook |->
     [required |-> {"url"},
      types |-> [url |-> "string", include_transcript |-> "boolean",
                 include_summary |-> "boolean",
                 include_action_items |-> "boolean"],
      defaults |-> [include_transcript |-> "false", include_summary |-> "true",
                    include_action_items |-> "true"]],
   delete_webhook |->
     [required |-> {"webhook_id"},
      types |-> [webhook_id |-> "string"],
      defaults |-> NoDefaults]]

StdioCaughtUnflagged(message) ==
  [isError |-> FALSE, content |-> [error |-> message]]

\* lines 310-321
StdioCaught(message) == [isError |-> TRUE, content |-> [error |-> message]]

StdioResult(content) == [isError |-> FALSE, content |-> content]

\* lines 143-167
StdioListResult(params, data) ==
  LET limit == IF NumOf(params.limit) = 0 THEN 50 ELSE NumOf(params.limit)
      meetings == Slice(data.items, limit)
  IN StdioResult(
       [total_found |-> Len(data.items),
        showing |-> Len(meetings),
        meetings |->
          [i \in 1..Len(meetings) |->
             [title |-> OrElse(meetings[i].title, meetings[i].meeting_title),
              recording_id |-> meetings[i].recording_id,
              summary |-> meetings[i].default_summary,
              action_items |-> meetings[i].action_items,
              transcript |-> IF params.include_transcript = "true"
                             THEN meetings[i].transcript ELSE Absent]],
        has_more |-> data.next_cursor # Absent])

\* lines 180-204
StdioSearchResult(params, meetings) ==
  StdioResult(
    [search_term |-> params.search_term,
     total_found |-> Len(meetings),
     meetings |->
       [i \in 1..Len(meetings) |->
          [title |-> OrElse(meetings[i].title, meetings[i].meeting_title),
           recording_id |-> meetings[i].recording_id,
           summary |-> meetings[i].default_summary,
           action_items |-> meetings[i].action_items,
           transcript |-> IF params.include_transcript = "true"
                          THEN meetings[i].transcript ELSE Absent,
           relevance |->
             IF /\ params.include_transcript = "true"
                /\ TranscriptMatch(meetings[i], toLowerCase(params.search_term))
             THEN "Found in transcript"
             ELSE "Found in title/summary"]]])

\* lines 135-168
StdioListMeetings(args, up) ==
  LET p == Parse(StdioSchemas.list_meetings, args) IN
  IF p.throws THEN StdioCaught(p.message)
  ELSE LET response == listMeetings(up.reply) IN
       IF response.throws THEN StdioCaught(response.message)
       ELSE StdioListResult(p.value, response.value)

\* lines 170-205
StdioSearchMeetings(args, up) ==
  LET p == Parse(StdioSchemas.search_meetings, args) IN
  IF p.throws THEN StdioCaught(p.message)
  ELSE LET meetings == searchMeetings(p.value.search_term,
                                      p.value.include_transcript = "true",
                                      up.reply, up.arrivals)
       IN IF meetings.throws THEN StdioCaught(meetings.message)
          ELSE StdioSearchResult(p.value, meetings.value)

\* lines 207-232
StdioGetMeetingTranscript(args, up) ==
  LET p == Parse(StdioSchemas.get_meeting_transcript, args) IN
  IF p.throws THEN StdioCaught(p.message)
  ELSE LET transcript == getMeetingTranscript(p.value.recording_id, up.reply)
       IN IF transcript.throws THEN StdioCaught(transcript.message)
          ELSE IF transcript.value = ""
          THEN StdioResult([text |-> Msg("No transcript available for recording ",
                                        p.value.recording_id, "")])
          ELSE IF p.value.summarize = "true"
          THEN StdioResult([text |-> Msg("Please summarize this meeting transcript:",
                                        transcript.value, "")])
          ELSE StdioResult([text |-> Msg("", transcript.value, "")])

\* lines 234-249
StdioListTeams(args, up) ==
  LET response == listTeams(up.reply) IN
  IF response.throws THEN StdioCaught(response.message)
  ELSE StdioResult([total_teams |-> Len(response.value.items),
                   teams |-> response.value.items,
                   has_more |-> response.value.next_cursor # Absent])

\* lines 251-269
StdioListTeamMembers(args, up) ==
  LET p == Parse(StdioSchemas.list_team_members, args) IN
  IF p.throws THEN StdioCaught(p.message)
  ELSE LET response == listTeamMembers(up.reply) IN
       IF response.throws THEN StdioCaught(response.message)
       ELSE StdioResult([team_id |-> p.value.team_id,
                        total_members |-> Len(response.value.items),
                        members |-> response.value.items,
                        has_more |-> response.value.next_cursor # Absent])

\* lines 271-288
StdioCreateWebhook(args, up) ==
  LET p == Parse(StdioSchemas.create_webhook, args) IN
  IF p.throws THEN StdioCaught(p.message)
  ELSE LET response == createWebhook(up.reply) IN
       IF response.throws THEN StdioCaught(response.message)
       ELSE StdioResult([webhook |-> response.value.webhook,
                        secret |-> response.value.secret,
                        note |-> "Save this secret securely"])

\* lines 290-307
StdioDeleteWebhook(args, up) ==
  LET p == Parse(StdioSchemas.delete_webhook, args) IN
  IF p.throws THEN StdioCaught(p.message)
  ELSE LET response == deleteWebhook(up.reply) IN
       IF response.throws THEN StdioCaught(response.message)
       ELSE StdioResult([success |-> TRUE,
                        webhook_id |-> p.value.webhook_id,
                        message |-> "Webhook deleted successfully"])

CallToolStdio(name, args, up) ==
  CASE name = "list_meetings" -> StdioListMeetings(args, up)
    [] name = "search_meetings" -> StdioSearchMeetings(args, up)
    [] name = "get_meeting_transcript" -> StdioGetMeetingTranscript(args, up)
    [] name = "list_teams" -> StdioListTeams(args, up)
    [] name = "list_team_members" -> StdioListTeamMembers(args, up)
    [] name = "create_webhook" -> StdioCreateWebhook(args, up)
    [] name = "delete_webhook" -> StdioDeleteWebhook(args, up)
    [] OTHER -> StdioCaught(Msg("Unknown tool: ", name, ""))

(***************************************************************************)
(* Tool invocations: an operation name, an argument object and the replies *)
(* the upstream gives to the calls the invocation makes.                   *)
(***************************************************************************)
Emp == [f \in {} |-> Absent]          \* the argument object {}

ArgsOf(name) ==
  CASE name = "list_meetings" ->
         {NoArguments, Emp, [limit |-> "1"], [limit |-> "0"], [limit |-> "a"],
          [limit |-> "-1"], [limit |-> "50"],
          [include_transcript |-> "true"], [meeting_type |-> "weekly"]}
    [] name = "search_meetings" ->
         {NoArguments, Emp, [search_term |-> "a"], [search_term |-> "A"],
          [search_term |-> "a", include_transcript |-> "false"],
          [search_term |-> "true"]}
    [] name = "get_meeting_transcript" ->
         {Emp, [recording_id |-> "r1"],
          [recording_id |-> "r1", summarize |-> "true"],
          [recording_id |-> "r1", summarize |-> "false"]}
    [] name = "list_teams" -> {NoArguments, Emp}
    [] name = "list_team_members" -> {Emp, [team_id |-> "t1"]}
    [] name = "create_webhook" ->
         {Emp, [url |-> "u1"], [url |-> "u1", include_summary |-> "false"]}
    [] name = "delete_webhook" -> {Emp, [webhook_id |-> "w1"]}
    [] OTHER -> {Emp}

Page(S) ==
  {[ok |-> TRUE, data |-> [items |-> its, next_cursor |-> c]] :
     its \in S, c \in {Absent, "c1"}}

RepliesOf(name) ==
  CASE name \in {"list_meetings", "search_meetings"} -> ListingReplies
    [] name = "get_meeting_transcript" -> TranscriptReplies
    [] name \in {"list_teams", "list_team_members"} ->
         Failures \cup Page({<<>>, <<[id |-> "t1"]>>})
    [] name = "create_webhook" ->
         Failures \cup {[ok |-> TRUE, data |-> [webhook |-> "w1", secret |-> "s"]]}
    [] OTHER -> Failures \cup {[ok |-> TRUE, data |-> Emp]}

Perms(S) ==
  {p \in [1..Cardinality(S) -> S] :
     \A i, j \in 1..Cardinality(S) : i # j => p[i] # p[j]}

\* the transcript fetches an invocation makes, answered in any order
ArrivalsOf(name, args, reply) ==
  LET p == Parse(HttpSchemas.search_meetings, args) IN
  IF /\ name = "search_meetings"
     /\ ~p.throws
     /\ p.value.include_transcript = "true"
     /\ reply.ok
  THEN LET fetched == WithRecordingId(Slice(reply.data.items, maxTranscripts))
       IN UNION {{[k \in 1..Cardinality(fetched) |-> <<order[k], rs[k]>>] :
                    rs \in [1..Cardinality(fetched) -> TranscriptReplies]} :
                 order \in Perms(fetched)}
  ELSE {<<>>}

ToolNames ==
  {"list_meetings", "search_meetings", "get_meeting_transcript", "list_teams",
   "list_team_members", "create_webhook", "delete_webhook", "export_meeting"}

NoInvocation ==
  [name |-> "", args |-> Emp, up |-> [reply |-> Absent, arrivals |-> <<>>]]

Transports == {"stdio", "streamable", "sse"}

(***************************************************************************)
(* One invocation handed to the dispatcher over each transport.  The stdio *)
(* server's handler is the one of index.ts; a streamable or event-stream   *)
(* session has a server built by createMcpServer() of the HTTP server.     *)
(***************************************************************************)
ViaStdio ==
  /\ "stdio" \notin DOMAIN env
  /\ env' = Put(env, "stdio", CallToolStdio(inv.name, inv.args, inv.up))
  /\ UNCHANGED <<svars, inv, calls, heap>>

ViaStreamable ==
  /\ "streamable" \notin DOMAIN env
  /\ env' = Put(env, "streamable", CallToolHttp(inv.name, inv.args, inv.up))
  /\ UNCHANGED <<svars, inv, calls, heap>>

ViaSse ==
  /\ "sse" \notin DOMAIN env
  /\ env' = Put(env, "sse", CallToolHttp(inv.name, inv.args, inv.up))
  /\ UNCHANGED <<svars, inv, calls, heap>>

(***************************************************************************)
(* Tool invocations of two sessions of the HTTP server, step by step.      *)
(* Both sessions' handlers call the one fathomClient (line 73).  A meeting *)
(* record is an object on the heap, reached by its address; the items of a *)
(* listing reply are objects made when the reply is parsed.                *)
(***************************************************************************)
Sessions == {"s1", "s2"}

\* sent: the upstream requests the invocation has issued, in order;
\* after: how the session's previous invocation ended
\* the handler has not returned an envelope
NoEnvelope == [returned |-> FALSE]

\* the upstream has not answered
NoReply == [answered |-> FALSE]

IdleCall ==
  [pc |-> "idle", name |-> "", args |-> Emp, params |-> Emp, items |-> <<>>,
   pending |-> {}, reply |-> NoReply, arrivals |-> <<>>, env |-> NoEnvelope,
   sent |-> <<>>, after |-> "none"]

\* a request to the upstream API: the route, the identifier in its path and
\* its query parameters or body
Request(op, id, params) == [op |-> op, id |-> id, params |-> params]

ArrayParams ==
  {"calendar_invitees", "calendar_invitees_domains", "recorded_by", "teams"}

formatParamsForwardsAll(params) ==
  [k \in {k \in DOMAIN params : /\ k \notin ArrayParams
                                /\ params[k] # Absent} |-> params[k]]

\* fathom-client.ts, lines 341-350 (no array parameter is set)
formatParams(params) ==
  [k \in {k \in DOMAIN params : /\ k \notin ArrayParams
                                /\ k # "include_transcript"
                                /\ params[k] # Absent} |-> params[k]]

DeclaredTools == DOMAIN HttpSchemas \cup {"list_teams"}

UnknownToolUnnamed(name) == Msg("Unknown error occurred", "", "")

\* line 315: the name matched no branch
UnknownTool(name) == Msg("Unknown tool: ", name, "")

\* the call a handler makes after it has parsed its arguments
UpstreamCall(name, params) ==
  CASE name = "list_meetings" ->
         Request("GET /meetings", Absent,
                 formatParams([k \in DOMAIN params \ {"limit"} |-> params[k]]))
    [] name = "search_meetings" ->
         Request("GET /meetings", Absent,
                 formatParams([include_transcript |-> "false",
                               created_after |-> "30 days ago"]))
    [] name = "get_meeting_transcript" ->
         Request("GET /recordings/:id/transcript", params.recording_id, Emp)
    [] name = "list_teams" -> Request("GET /teams", Absent, Emp)
    [] name = "list_team_members" ->
         Request("GET /teams/:id/members", params.team_id, Emp)
    [] name = "create_webhook" -> Request("POST /webhooks", Absent, params)
    [] OTHER -> Request("DELETE /webhooks/:id", params.webhook_id, Emp)

\* meetingsWithRecordingId.map(...): one fetch per meeting, in listing order
TranscriptFetches(meetings) ==
  LET with == SelectSeq([i \in 1..Len(meetings) |-> meetings[i]],
                        LAMBDA m : m.recording_id # Absent)
  IN [k \in 1..Len(with) |->
        Request("GET /recordings/:id/transcript", with[k].recording_id, Emp)]

SharedObjects(h, n) == [i \in 1..n |-> i]

\* a listing whose first record is the last record of the listing before
OverlappingObjects(h, n) ==
  [i \in 1..n |-> IF h = EmptyTable THEN i ELSE Cardinality(DOMAIN h) - 1 + i]

NewObjects(h, n) == [i \in 1..n |-> Cardinality(DOMAIN h) + i]

Store(h, addrs, values) ==
  [a \in DOMAIN h \cup {addrs[i] : i \in 1..Len(addrs)} |->
     IF \E i \in 1..Len(addrs) : addrs[i] = a
     THEN values[CHOOSE i \in 1..Len(addrs) : addrs[i] = a]
     ELSE h[a]]

DerefReversed(h, addrs) ==
  [i \in 1..Len(addrs) |-> h[addrs[Len(addrs) - i + 1]]]

Deref(h, addrs) == [i \in 1..Len(addrs) |-> h[addrs[i]]]

ConcurrentTools == {"list_meetings", "search_meetings"}

ConcurrentArgs(name) ==
  IF name = "list_meetings"
  THEN {Emp, [include_transcript |-> "true"]}
  ELSE {[search_term |-> "a"],
        [search_term |-> "a", include_transcript |-> "false"]}

ConcurrentListingReplies ==
  {[ok |-> FALSE, status |-> "429", message |-> Absent]} \cup
  {[ok |-> TRUE, data |-> [items |-> its, next_cursor |-> Absent]] :
     its \in SeqsUpTo({[title |-> "b", meeting_title |-> Absent,
                        default_summary |-> Absent, action_items |-> <<>>,
                        recording_id |-> "r1", transcript |-> Absent],
                       [title |-> "a", meeting_title |-> Absent,
                        default_summary |-> Absent, action_items |-> <<>>,
                        recording_id |-> Absent, transcript |-> Absent]},
                      MaxItems)}

ConcurrentTranscriptReplies ==
  {[k |-> "text", v |-> "a"], [k |-> "status", v |-> "404"],
   [k |-> "status", v |-> "429"]}

Finished(c, envelope) == [c EXCEPT !.pc = "done", !.env = envelope]

\* the handler up to its first await: the branch of the name, parse (no
\* branch of list_teams parses), then the upstream call
Invoke(s, name, args) ==
  /\ calls[s].pc = "idle"
  /\ LET c == [calls[s] EXCEPT !.name = name, !.args = args]
         p == IF name = "list_teams" THEN Ok(Emp)
              ELSE Parse(HttpSchemas[name], args)
     IN calls' = [calls EXCEPT ![s] =
                 IF name \notin DeclaredTools
                 THEN Finished(c, HttpCaught(UnknownTool(name)))
                 ELSE IF p.throws
                 THEN Finished(c, HttpCaught(p.message))
                 ELSE [c EXCEPT !.pc = IF name \in {"list_meetings",
                                                     "search_meetings"}
                                       THEN "listing" ELSE "calling",
                                !.params = p.value,
                                !.sent = <<UpstreamCall(name, p.value)>>]]
  /\ UNCHANGED <<svars, inv, env, heap>>

\* the one upstream call of get_meeting_transcript, list_teams,
\* list_team_members, create_webhook or delete_webhook returns; the handler
\* runs to its end
CallReply(s, reply) ==
  /\ calls[s].pc = "calling"
  /\ LET c == [calls[s] EXCEPT !.reply = reply] IN
     calls' = [calls EXCEPT ![s] =
                 Finished(c, CallToolHttp(c.name, c.args,
                                          [reply |-> reply, arrivals |-> <<>>]))]
  /\ UNCHANGED <<svars, inv, env, heap>>

IncludeTranscriptAlways(params) == TRUE

\* the includeTranscript argument of searchMeetings (part_001, line 182),
\* tested at fathom-client.ts, line 162
IncludeTranscript(params) == params.include_transcript = "true"

\* listMeetings returns; the handler, or searchMeetings, runs to its next await
\* the listing call issued once more when it failed
ListingReplyRetries(s, reply) ==
  IF ~reply.ok /\ Len(calls[s].sent) < 2
  THEN /\ calls[s].pc = "listing"
       /\ calls' = [calls EXCEPT ![s].sent = @ \o <<@[1]>>]
       /\ UNCHANGED <<svars, inv, env, heap>>
  ELSE
      /\ calls[s].pc = "listing"
      /\ LET c == [calls[s] EXCEPT !.reply = reply]
             response == listMeetings(reply)
         IN IF response.throws
            THEN /\ calls' = [calls EXCEPT ![s] = Finished(c, HttpCaught(response.message))]
                 /\ heap' = heap
            ELSE LET addrs == NewObjects(heap, Len(response.value.items))
                     h == Store(heap, addrs, response.value.items)
                     searchLower == toLowerCase(c.params.search_term)
                 IN /\ heap' = h
                    /\ calls' = [calls EXCEPT ![s] =
                         IF c.name = "list_meetings"
                         THEN Finished(c, HttpListResult(c.params,
                                [items |-> Deref(h, addrs),
                                 next_cursor |-> response.value.next_cursor]))
                         ELSE IF IncludeTranscript(c.params)
                         THEN [c EXCEPT !.pc = "fetching",
                                        !.items = Slice(addrs, maxTranscripts),
                                        !.sent = @ \o TranscriptFetches(
                                          Slice(response.value.items, maxTranscripts)),
                                        !.pending = WithRecordingId(
                                          Slice(response.value.items, maxTranscripts))]
                         ELSE Finished(c, HttpSearchResult(c.params,
                                FilterMetadata(Deref(h, addrs), searchLower)))]
      /\ UNCHANGED <<svars, inv, env>>

ListingReply(s, reply) ==
  /\ calls[s].pc = "listing"
  /\ LET c == [calls[s] EXCEPT !.reply = reply]
         response == listMeetings(reply)
     IN IF response.throws
        THEN /\ calls' = [calls EXCEPT ![s] = Finished(c, HttpCaught(response.message))]
             /\ heap' = heap
        ELSE LET addrs == NewObjects(heap, Len(response.value.items))
                 h == Store(heap, addrs, response.value.items)
                 searchLower == toLowerCase(c.params.search_term)
             IN /\ heap' = h
                /\ calls' = [calls EXCEPT ![s] =
                     IF c.name = "list_meetings"
                     THEN Finished(c, HttpListResult(c.params,
                            [items |-> Deref(h, addrs),
                             next_cursor |-> response.value.next_cursor]))
                     ELSE IF IncludeTranscript(c.params)
                     THEN [c EXCEPT !.pc = "fetching",
                                    !.items = Slice(addrs, maxTranscripts),
                                    !.sent = @ \o TranscriptFetches(
                                      Slice(response.value.items, maxTranscripts)),
                                    !.pending = WithRecordingId(
                                      Slice(response.value.items, maxTranscripts))]
                     ELSE Finished(c, HttpSearchResult(c.params,
                            FilterMetadata(Deref(h, addrs), searchLower)))]
  /\ UNCHANGED <<svars, inv, env>>

\* one transcript fetch of the batch returns (lines 175-194); a fetch that
\* returns after the batch was rejected still runs its continuation
TranscriptReply(s, i, reply) ==
  /\ calls[s].pc \in {"fetching", "done"}
  /\ i \in calls[s].pending
  /\ LET c == calls[s]
         a == c.items[i]
         t == getMeetingTranscript(heap[a].recording_id, reply)
         logged == [c EXCEPT !.pending = @ \ {i},
                             !.arrivals = Append(@, <<i, reply>>)]
     IN IF t.throws
        THEN /\ calls' = [calls EXCEPT ![s] =
                            IF c.pc = "fetching"
                            THEN Finished(logged, HttpCaught(t.message))
                            ELSE logged]
             /\ heap' = heap
        ELSE /\ calls' = [calls EXCEPT ![s] = logged]
             /\ heap' = [heap EXCEPT ![a] = Attached(@, t.value)]
  /\ UNCHANGED <<svars, inv, env>>

\* Promise.all resolves (line 196): filter, then the handler's formatting
SearchSettled(s) ==
  /\ calls[s].pc = "fetching"
  /\ calls[s].pending = {}
  /\ LET c == calls[s] IN
     calls' = [calls EXCEPT ![s] =
                 Finished(c, HttpSearchResult(c.params,
                   FilterWithTranscript(Deref(heap, c.items),
                                        toLowerCase(c.params.search_term))))]
  /\ UNCHANGED <<svars, inv, env, heap>>

\* The transport sends the envelope and hands the session's next tools/call
\* frame to the handler.  The records of the finished invocation are garbage
\* once no running invocation holds them.
Again(s) ==
  /\ calls[s].pc = "done"
  /\ calls[s].pending = {}
  /\ calls' = [calls EXCEPT ![s] =
                 [IdleCall EXCEPT !.after = IF calls[s].env.isError
                                            THEN "error" ELSE "result"]]
  /\ heap' = IF \A o \in Sessions \ {s} : calls[o].pc = "idle"
             THEN EmptyTable ELSE heap
  /\ UNCHANGED <<svars, inv, env>>

(***************************************************************************)
(* The server after main(): the table empty, nothing constructed.          *)
(***************************************************************************)
NothingConstructed ==
  /\ transports = EmptyTable
  /\ tr = [t \in TransportIds |-> NoTransport]
  /\ nextT = 0
  /\ uuidCount = 0
  /\ disp = [t \in TransportIds |-> 0]
  /\ proc = "running"
  /\ sd = [pending |-> {}, cur |-> NoSid, ok |-> TRUE]
  /\ last = Resp("none", NoSid, 0, 0, "none")

\* the HTTP server once main() has run: credential read, client constructed,
\* app.listen called
Booted ==
  [server |-> "http", apiKey |-> "k", pc |-> "serving", exit |-> "none"]

\* no webhook exists upstream
NoWebhooks == [made |-> 0, live |-> {}, log |-> <<>>]

SessionInit == NothingConstructed /\ boot = Booted /\ upstream = NoWebhooks

DispatcherIdle ==
  /\ inv = NoInvocation
  /\ env = EmptyTable
  /\ calls = [s \in Sessions |-> IdleCall]
  /\ heap = EmptyTable

Init == SessionInit /\ DispatcherIdle

Next ==
  \/ \E r \in McpReqs : McpRequest(r)
  \/ \E t \in TransportIds, accepted \in BOOLEAN : McpConnected(t, accepted)
  \/ \E q \in SseReqs : SseConnect(q)
  \/ \E r \in MessageReqs : MessagesRequest(r)
  \/ \E t \in TransportIds : SseDisconnect(t)
  \/ \E t \in TransportIds : DispatchFinish(t)
  \/ \E ok \in BOOLEAN : Sigint(ok)
  \/ \E ok \in BOOLEAN : ShutdownResume(ok)

Spec == Init /\ [][Next]_vars

(***************************************************************************)
(* The dispatcher applied to one invocation, over each transport.          *)
(***************************************************************************)
ToolInit ==
  /\ SessionInit
  /\ \E n \in ToolNames :
       \E a \in ArgsOf(n) :
         \E r \in RepliesOf(n) :
           \E arr \in ArrivalsOf(n, a, r) :
             inv = [name |-> n, args |-> a,
                    up |-> [reply |-> r, arrivals |-> arr]]
  /\ env = EmptyTable
  /\ calls = [s \in Sessions |-> IdleCall]
  /\ heap = EmptyTable

ToolNext == ViaStdio \/ ViaStreamable \/ ViaSse

SpecTool == ToolInit /\ [][ToolNext]_vars

(***************************************************************************)
(* Two sessions, each running one tool invocation, interleaved.            *)
(***************************************************************************)
DispatchNext ==
  \/ \E s \in Sessions, name \in ConcurrentTools :
       \E args \in ConcurrentArgs(name) : Invoke(s, name, args)
  \/ \E s \in Sessions, reply \in ConcurrentListingReplies : ListingReply(s, reply)
  \/ \E s \in Sessions, i \in 1..MaxItems :
       \E reply \in ConcurrentTranscriptReplies : TranscriptReply(s, i, reply)
  \/ \E s \in Sessions : SearchSettled(s)

SpecDispatch == Init /\ [][DispatchNext]_vars

(***************************************************************************)
(* One session of the HTTP server issuing tool invocations one after the   *)
(* other, each followed step by step with the upstream requests it issues. *)
(* The session is the streamable session registered first; a tools/call    *)
(* frame has been handed to its transport.                                 *)
(***************************************************************************)
HandlerSession == "s1"
HandlerSid == Uuid(1)

Established ==
  /\ transports = Put(EmptyTable, HandlerSid, 1)
  /\ tr = [t \in TransportIds |->
             IF t = 1 THEN [kind |-> "streamable", sid |-> HandlerSid,
                            state |-> "active", att |-> FALSE]
             ELSE NoTransport]
  /\ nextT = 1
  /\ uuidCount = 1
  /\ disp = [t \in TransportIds |-> IF t = 1 THEN 1 ELSE 0]
  /\ proc = "running"
  /\ sd = [pending |-> {}, cur |-> NoSid, ok |-> TRUE]
  /\ last = Resp("/mcp", HandlerSid, 200, 1, "dispatched")
  /\ boot = Booted
  /\ upstream = NoWebhooks

Meeting(title, meeting_title, default_summary, action_items, recording_id) ==
  [title |-> title, meeting_title |-> meeting_title,
   default_summary |-> default_summary, action_items |-> action_items,
   recording_id |-> recording_id, transcript |-> Absent]

\* an action item: a string, or a value of another type holding the text
ActionItem(string, text) == [string |-> string, text |-> text]

\* meetings that differ in the field a search term can be found in; the last
\* one comes from the listing with a transcript of its own
MeetingKinds ==
  {Meeting("b", Absent, Absent, <<>>, "r1"),
   Meeting("A", Absent, Absent, <<>>, Absent),
   Meeting(Absent, "ab", Absent, <<>>, "r2"),
   Meeting("b", Absent, "a", <<>>, Absent),
   Meeting("b", Absent, Absent, <<ActionItem(TRUE, "A")>>, Absent),
   Meeting("b", Absent, Absent, <<ActionItem(FALSE, "a")>>, Absent),
   Meeting("b", Absent, Absent, <<>>, Absent),
   [Meeting("b", Absent, Absent, <<>>, Absent) EXCEPT !.transcript = "a"]}

\* a listing longer than the cap on transcript fetches: its last meeting is
\* the only one whose title holds "a"; with a gap, its first meeting has no
\* recording identifier
LongListing(gap) ==
  [i \in 1..MaxListing |->
     Meeting(IF i = MaxListing THEN "a" ELSE "b", Absent, Absent, <<>>,
             IF gap /\ i = 1 THEN Absent ELSE "r1")]

HandlerListingReplies ==
  Failures \cup
  {[ok |-> TRUE, data |-> [items |-> its, next_cursor |-> Absent]] :
     its \in SeqsUpTo(MeetingKinds, MaxItems) \cup
             {LongListing(gap) : gap \in BOOLEAN}} \cup
  {[ok |-> TRUE, data |-> [items |-> <<m>>, next_cursor |-> "c1"]] :
     m \in MeetingKinds}

HandlerTranscriptReplies ==
  {[k |-> "text", v |-> "A"], [k |-> "unexpected", v |-> ""],
   [k |-> "network", v |-> ""]}
    \cup {[k |-> "status", v |-> st] : st \in {"404", "401", "403", "429", "500"}}

\* the fetches of a batch of more than MaxItems are answered in listing
\* order, each with no transcript yet or a rate limit
LongBatch(s) == Len(calls[s].items) > MaxItems

InOrder(s, i, reply) ==
  /\ \A j \in calls[s].pending : i <= j
  /\ reply.k = "status"
  /\ reply.v \in {"404", "429"}

HandlerInit == Established /\ DispatcherIdle

HandlerNext ==
  \/ \E name \in ToolNames :
       \E args \in ArgsOf(name) : Invoke(HandlerSession, name, args)
  \/ \E reply \in HandlerListingReplies : ListingReply(HandlerSession, reply)
  \/ \E i \in 1..maxTranscripts, reply \in HandlerTranscriptReplies :
       /\ LongBatch(HandlerSession) => InOrder(HandlerSession, i, reply)
       /\ TranscriptReply(HandlerSession, i, reply)
  \/ SearchSettled(HandlerSession)
  \/ \E reply \in RepliesOf(calls[HandlerSession].name) :
       CallReply(HandlerSession, reply)
  \/ Again(HandlerSession)

SpecHandler == HandlerInit /\ [][HandlerNext]_vars

\* every upstream call returns or fails: a pending `await` is resumed
HandlerAnswers ==
  \/ \E reply \in HandlerListingReplies : ListingReply(HandlerSession, reply)
  \/ \E i \in 1..maxTranscripts, reply \in HandlerTranscriptReplies :
       /\ LongBatch(HandlerSession) => InOrder(HandlerSession, i, reply)
       /\ TranscriptReply(HandlerSession, i, reply)
  \/ SearchSettled(HandlerSession)
  \/ \E reply \in RepliesOf(calls[HandlerSession].name) :
       CallReply(HandlerSession, reply)

\* what every answer changes: the position of the invocation or the
\* number of answers it has had
Progress ==
  <<calls[HandlerSession].pc, Len(calls[HandlerSession].arrivals)>>

SpecHandlerLive == SpecHandler /\ WF_Progress(HandlerAnswers)

(***************************************************************************)
(* One session creating and deleting webhooks against an upstream that     *)
(* keeps them: POST /webhooks makes a webhook under a fresh identifier,    *)
(* DELETE /webhooks/:id removes the webhook if it exists and answers 404   *)
(* otherwise, with or without a message in the error body.  The session    *)
(* also calls list_teams.                                                  *)
(***************************************************************************)
Hook(n) == CASE n = 1 -> "w1" [] n = 2 -> "w2" [] OTHER -> "w3"

WebhookArgs(name) ==
  IF name = "delete_webhook"
  THEN {Emp} \cup {[webhook_id |-> Hook(n)] : n \in 1..MaxHooks}
  ELSE ArgsOf(name)

\* the upstream's answer to the webhook request of the invocation
WebhookAnswer(c, message) ==
  IF c.name = "create_webhook"
  THEN [ok |-> TRUE,
        data |-> [webhook |-> Hook(upstream.made + 1), secret |-> "s"]]
  ELSE IF c.params.webhook_id \in upstream.live
  THEN [ok |-> TRUE, data |-> Emp]
  ELSE [ok |-> FALSE, status |-> "404", message |-> message]

WebhookInvoke(s, name, args) ==
  /\ Len(upstream.log) < MaxWebhookCalls
  /\ name = "create_webhook" => upstream.made < MaxHooks
  /\ Invoke(s, name, args)

\* createWebhook or deleteWebhook returns; the handler runs to its end
WebhookReply(s, message) ==
  /\ calls[s].pc = "calling"
  /\ calls[s].name \in {"create_webhook", "delete_webhook"}
  /\ LET reply == WebhookAnswer(calls[s], message)
         c == [calls[s] EXCEPT !.reply = reply]
         envelope == CallToolHttp(c.name, c.args,
                                  [reply |-> reply, arrivals |-> <<>>])
         create == c.name = "create_webhook"
         id == IF create THEN Hook(upstream.made + 1) ELSE c.params.webhook_id
     IN /\ calls' = [calls EXCEPT ![s] = Finished(c, envelope)]
        /\ upstream' =
             [made |-> IF create THEN upstream.made + 1 ELSE upstream.made,
              live |-> IF create THEN upstream.live \cup {id}
                       ELSE upstream.live \ {id},
              log |-> Append(upstream.log,
                             [op |-> IF create THEN "POST" ELSE "DELETE",
                              id |-> id, isError |-> envelope.isError])]
  /\ UNCHANGED <<transports, tr, nextT, uuidCount, disp, proc, sd, last,
                 inv, env, heap, boot>>

TeamsReply(s, reply) ==
  /\ calls[s].name = "list_teams"
  /\ CallReply(s, reply)

WebhookNext ==
  \/ \E name \in {"create_webhook", "delete_webhook", "list_teams"} :
       \E args \in WebhookArgs(name) : WebhookInvoke(HandlerSession, name, args)
  \/ \E message \in {Absent, "m"} : WebhookReply(HandlerSession, message)
  \/ \E reply \in RepliesOf("list_teams") : TeamsReply(HandlerSession, reply)
  \/ Again(HandlerSession)

SpecWebhook == HandlerInit /\ [][WebhookNext]_vars

(***************************************************************************)
(* Two tools/call frames arriving one after the other on the transport of  *)
(* the one registered session.  Each POST is handed to the transport by    *)
(* its own run of the route (line 416) and starts its own run of the       *)
(* handler (line 137), which keeps nothing per session: the two runs share *)
(* the client only.  The slot of a run says which frame started it.        *)
(***************************************************************************)
FirstFrame == "s1"
SecondFrame == "s2"

\* the frame is handed to the handler, the second one after the first
FrameArrives(f, name, args) ==
  /\ f = SecondFrame => calls[FirstFrame].pc # "idle"
  /\ Invoke(f, name, args)

FramesNext ==
  \/ \E f \in {FirstFrame, SecondFrame}, name \in ConcurrentTools :
       \E args \in ConcurrentArgs(name) : FrameArrives(f, name, args)
  \/ \E f \in {FirstFrame, SecondFrame}, reply \in ConcurrentListingReplies :
       ListingReply(f, reply)
  \/ \E f \in {FirstFrame, SecondFrame}, i \in 1..MaxItems :
       \E reply \in ConcurrentTranscriptReplies : TranscriptReply(f, i, reply)
  \/ \E f \in {FirstFrame, SecondFrame} : SearchSettled(f)

SpecFrames == HandlerInit /\ [][FramesNext]_vars

(***************************************************************************)
(* The transcript of a recording as the upstream returns it, an array of   *)
(* segments, and the text getMeetingTranscript makes of it.  A text is the *)
(* sequence of its pieces, a line break being the piece "\n"; the fields   *)
(* of a segment are strings without a line break, or absent.               *)
(***************************************************************************)
MaxSegments == 3

Segment(timestamp, display_name, text) ==
  [timestamp |-> timestamp, speaker |-> display_name, text |-> text]

Segments ==
  {Segment("00:05", "Al", "hi"), Segment("00:12", "Bo", "ok"),
   Segment("00:20", Absent, "hm"), Segment(Absent, "Al", "no"),
   Segment("00:31", "", "")}

\* `[${time}] ${speaker}: ${text}` with the three defaults
RenderSegment(segment) ==
  <<"[", OrElse(segment.timestamp, ""), "] ",
    OrElse(segment.speaker, "Unknown Speaker"), ": ",
    OrElse(segment.text, "")>>

RECURSIVE Join(_, _)
\* Array.prototype.join
Join(pieces, separator) ==
  IF pieces = <<>> THEN <<>>
  ELSE IF Len(pieces) = 1 THEN pieces[1]
  ELSE pieces[1] \o <<separator>> \o Join(Tail(pieces), separator)

\* the text with the segments that say nothing left out
RenderSkipsEmpty(transcript) ==
  Join([i \in 1..Len(SelectSeq(transcript,
                               LAMBDA g : OrElse(g.text, "") # "")) |->
          RenderSegment(SelectSeq(transcript,
                                  LAMBDA g : OrElse(g.text, "") # "")[i])],
       "\n")

\* response.data.transcript.map(...).join('\n')
Render(transcript) ==
  Join([i \in 1..Len(transcript) |-> RenderSegment(transcript[i])], "\n")

RenderInit ==
  /\ SessionInit
  /\ \E transcript \in SeqsUpTo(Segments, MaxSegments) :
       inv = [name |-> "get_meeting_transcript",
              args |-> [recording_id |-> "r1"],
              up |-> [reply |-> [k |-> "segments", v |-> transcript],
                      arrivals |-> <<>>]]
  /\ env = EmptyTable
  /\ calls = [s \in Sessions |-> IdleCall]
  /\ heap = EmptyTable

\* the array branch of getMeetingTranscript
RenderTranscript ==
  /\ inv.up.reply.k = "segments"
  /\ "text" \notin DOMAIN env
  /\ env' = Put(env, "text", Render(inv.up.reply.v))
  /\ UNCHANGED <<svars, inv, calls, heap>>

RenderNext == RenderTranscript

SpecRender == RenderInit /\ [][RenderNext]_vars

(***************************************************************************)
(* The process from its start.  The module's top level reads the           *)
(* credential and exits when it is missing (part_001, lines 66-71;         *)
(* index.ts, lines 61-67), then constructs the client; main() binds the    *)
(* listener (HTTP server) or connects the stdio transport.  Requests are   *)
(* handled only by a process that has done so.                             *)
(***************************************************************************)
Servers == {"http", "stdio"}

\* process.env.FATHOM_API_KEY: not set, set to the empty string, set
Credentials == {Absent, "", "k"}

HasCredentialIfDefined(apiKey) == apiKey # Absent

\* !apiKey is false
HasCredential(apiKey) == apiKey \notin {Absent, ""}

StartupInvocations ==
  {[name |-> "list_teams", args |-> Emp,
    up |-> [reply |-> r, arrivals |-> <<>>]] : r \in RepliesOf("list_teams")}

StartupInit ==
  /\ NothingConstructed
  /\ \E server \in Servers, apiKey \in Credentials :
       boot = [server |-> server, apiKey |-> apiKey, pc |-> "load",
               exit |-> "none"]
  /\ upstream = NoWebhooks
  /\ inv \in (IF boot.server = "stdio" THEN StartupInvocations
              ELSE {NoInvocation})
  /\ env = EmptyTable
  /\ calls = [s \in Sessions |-> IdleCall]
  /\ heap = EmptyTable

\* the top level of the module, up to `new FathomClient(apiKey)`
LoadModule ==
  /\ boot.pc = "load"
  /\ boot' = IF HasCredential(boot.apiKey)
             THEN [boot EXCEPT !.pc = "main"]
             ELSE [boot EXCEPT !.pc = "exited", !.exit = "1"]
  /\ UNCHANGED <<transports, tr, nextT, uuidCount, disp, proc, sd, last,
                 inv, env, calls, heap, upstream>>

\* main() of the HTTP server: app.listen(PORT); a port that cannot be bound
\* ends the process
Listen(ok) ==
  /\ boot.pc = "main"
  /\ boot.server = "http"
  /\ boot' = IF ok THEN [boot EXCEPT !.pc = "serving"]
             ELSE [boot EXCEPT !.pc = "exited", !.exit = "1"]
  /\ UNCHANGED <<transports, tr, nextT, uuidCount, disp, proc, sd, last,
                 inv, env, calls, heap, upstream>>

\* main() of the stdio server: await server.connect(transport); a rejection
\* is caught by main().catch, which exits with 1
ConnectStdio(ok) ==
  /\ boot.pc = "main"
  /\ boot.server = "stdio"
  /\ boot' = IF ok THEN [boot EXCEPT !.pc = "serving"]
             ELSE [boot EXCEPT !.pc = "exited", !.exit = "1"]
  /\ UNCHANGED <<transports, tr, nextT, uuidCount, disp, proc, sd, last,
                 inv, env, calls, heap, upstream>>

\* a request reaches a route of the listening HTTP server
Serve == boot.pc = "serving" /\ boot.server = "http" /\ Next

\* a tools/call frame reaches the connected stdio transport
ServeStdio == boot.pc = "serving" /\ boot.server = "stdio" /\ ViaStdio

StartupNext ==
  \/ LoadModule
  \/ \E ok \in BOOLEAN : Listen(ok)
  \/ \E ok \in BOOLEAN : ConnectStdio(ok)
  \/ Serve
  \/ ServeStdio

SpecStartup == StartupInit /\ [][StartupNext]_vars


TypeOK ==
  /\ DOMAIN transports \subseteq ClientSids
  /\ \A k \in DOMAIN transports : transports[k] \in TransportIds
  /\ nextT \in 0..MaxTransports
  /\ uuidCount \in 0..MaxTransports
  /\ proc \in {"running", "closing", "exited"}
  /\ \A t \in TransportIds :
       tr[t].state \in {"unused", "connecting", "refused", "active", "ended", "closed"}

(***************************************************************************)
(* C1.  On /mcp a request without session identifier is accepted (a        *)
(* transport is constructed for it) only if it is a POST carrying an       *)
(* initialize request; any other request without identifier is answered    *)
(* 400, adds no entry to the session table, constructs no transport and    *)
(* starts no tool dispatch.                                                *)
(***************************************************************************)
C1_NoSessionOnlyInit ==
  [][(last'.ep = "/mcp" /\ last'.sid = NoSid) =>
       \A r \in McpReqsWith(NoSid) :
         McpRequest(r) =>
           IF r.method = "POST" /\ isInitializeRequest(r.body)
           THEN nextT' = nextT + 1 /\ last'.why = "connecting"
           ELSE /\ last'.status = 400
                /\ last'.why = "no-session"
                /\ last'.by = 0
                /\ UNCHANGED <<transports, tr, nextT, uuidCount, disp>>]_vars

C1_Witness ==
  /\ last.ep = "/mcp" /\ last.sid = NoSid
  /\ last.why = "no-session" /\ last.status = 400

(***************************************************************************)
(* C2.  A session is closed once its transport has closed and its entry    *)
(* has left the table.  As claimed: from then on the identifier never      *)
(* enters the table again, and a request bearing it is handled as the same *)
(* request without identifier would be.                                    *)
(***************************************************************************)
SessionClosed(sid) ==
  /\ Truthy(sid)
  /\ sid \notin DOMAIN transports
  /\ \E t \in TransportIds :
       tr[t].sid = sid /\ tr[t].state \in {"ended", "closed"}

ClosedSids == {sid \in Uuids : SessionClosed(sid)}

\* an identifier entering the table is not that of a closed session
NeverRegisteredAgain ==
  \A sid \in DOMAIN transports' :
    sid \in DOMAIN transports \/ ~SessionClosed(sid)

Active(t) == tr[t].state = "active"

C3_OneActiveTransportPerId ==
  /\ \A sid \in Uuids :
       Cardinality({t \in TransportIds : Active(t) /\ tr[t].sid = sid}) <= 1
  /\ \A t \in TransportIds : Active(t) => Lookup(transports, tr[t].sid) = t

C3_Witness ==
  \E t1, t2 \in TransportIds :
    /\ Active(t1) /\ Active(t2)
    /\ tr[t1].kind = "streamable" /\ tr[t2].kind = "sse"

(***************************************************************************)
(* C4.  Every key of the session table is an identifier the server drew    *)
(* itself; what a client sent with the request that created the session    *)
(* is never the key.                                                       *)
(***************************************************************************)
C4_KeysServerGenerated == DOMAIN transports \subseteq Issued

C4_Witness ==
  /\ last.ep = "/sse" /\ last.sid = Forged /\ last.why = "connected"
  /\ Lookup(transports, tr[last.by].sid) = last.by

(***************************************************************************)
(* C5.  A request bearing the identifier of a registered transport of the  *)
(* endpoint's kind is handled by that transport; no transport is           *)
(* constructed and routing leaves the table as it is (the only change is   *)
(* the one the transport makes itself when the request terminates it).     *)
(***************************************************************************)
C5_KnownSessionReused ==
  [][/\ (last'.ep = "/mcp" /\ IsStreamable(Lookup(transports, last'.sid))) =>
          \A r \in McpReqsWith(last'.sid) :
            McpRequest(r) =>
              /\ last'.by = transports[r.sid]
              /\ UNCHANGED <<nextT, uuidCount>>
              /\ IF r.method = "DELETE"
                 THEN transports' = Remove(transports, r.sid)
                 ELSE UNCHANGED <<transports, tr>>
     /\ (last'.ep = "/messages" /\ IsSse(Lookup(transports, last'.sid))) =>
          \A r \in MessageReqsWith(last'.sid) :
            MessagesRequest(r) =>
              /\ last'.by = transports[r.sid]
              /\ UNCHANGED <<transports, tr, nextT, uuidCount>>]_vars

C5_Witness ==
  /\ last.why = "dispatched"
  /\ last.sid \in DOMAIN transports
  /\ transports[last.sid] = last.by
  /\ disp[last.by] > 0

(***************************************************************************)
(* C6.  A request bearing the identifier of a registered transport of the  *)
(* other kind is answered 400 (protocol mismatch); the transport does not  *)
(* handle it and nothing changes.                                          *)
(***************************************************************************)
C6_MismatchRejected ==
  [][/\ (last'.ep = "/mcp" /\ IsSse(Lookup(transports, last'.sid))) =>
          \A r \in McpReqsWith(last'.sid) :
            McpRequest(r) =>
              /\ last'.status = 400 /\ last'.why = "mismatch" /\ last'.by = 0
              /\ UNCHANGED <<transports, tr, nextT, uuidCount, disp>>
     /\ (last'.ep = "/messages" /\ IsStreamable(Lookup(transports, last'.sid))) =>
          \A r \in MessageReqsWith(last'.sid) :
            MessagesRequest(r) =>
              /\ last'.status = 400 /\ last'.why = "mismatch" /\ last'.by = 0
              /\ UNCHANGED <<transports, tr, nextT, uuidCount, disp>>]_vars

C6_Witness ==
  /\ last.why = "mismatch" /\ last.status = 400
  /\ last.sid \in DOMAIN transports
  /\ tr[transports[last.sid]].state = "active"

(***************************************************************************)
(* C7.  When the process has exited on SIGINT, close() has been called on  *)
(* the transport of every session still in the table, whether it was       *)
(* registered before the signal or while the handler awaited a close.      *)
(***************************************************************************)
C7_EveryActiveSessionClosed ==
  proc = "exited" => \A k \in DOMAIN transports : tr[transports[k]].att

C9_SessionsIsolated ==
  \A s \in Sessions :
    calls[s].pc = "done" =>
      calls[s].env = CallToolHttp(calls[s].name, calls[s].args,
                                  [reply |-> calls[s].reply,
                                   arrivals |-> calls[s].arrivals])

C9_Witness ==
  \E s, o \in Sessions :
    /\ calls[s].pc = "fetching"
    /\ \E i \in 1..Len(calls[s].items) :
         heap[calls[s].items[i]].transcript # Absent
    /\ calls[o].pc = "done"
    /\ calls[o].name = "search_meetings"
    /\ Len(calls[o].arrivals) > 0
    /\ calls[o].items[1] > calls[s].items[1]
    /\ ~calls[o].env.isError
    /\ calls[o].env.content.total_found > 0

(***************************************************************************)
(* C10.  For one operation name, argument object and sequence of upstream  *)
(* replies, the envelopes the dispatcher returned over the stdio, the      *)
(* streamable and the event-stream transport are the same.                 *)
(***************************************************************************)
C10_SameEnvelope == \A t1, t2 \in DOMAIN env : env[t1] = env[t2]

C10_Witness ==
  /\ DOMAIN env = Transports
  /\ inv.name = "search_meetings"
  /\ ~env["sse"].isError
  /\ \E i \in 1..Len(env["sse"].content.meetings) :
       env["sse"].content.meetings[i].relevance = "Found in transcript"

(***************************************************************************)
(* Vocabulary of the claims about one session's invocations: the finished  *)
(* invocation, the error its handling raised, if any, and the envelope the *)
(* dispatcher computes for the invocation taken alone.                     *)
(***************************************************************************)
TheCall == calls[HandlerSession]

Returned == TheCall.pc = "done"

NoError == Msg("", "", "")

Critical(reply) == reply.k = "status" /\ reply.v \in {"401", "403", "429"}

ValidationFails(c) ==
  /\ c.name \in DOMAIN HttpSchemas
  /\ Parse(HttpSchemas[c.name], c.args).throws

\* the recording whose transcript the fetch at position i of the batch asks for
RecordingAt(c, i) == c.reply.data.items[i].recording_id

RaisedError(c) ==
  IF c.name \notin DeclaredTools THEN Msg("Unknown tool: ", c.name, "")
  ELSE IF ValidationFails(c) THEN Msg("ZodError", "", "")
  ELSE IF c.name = "get_meeting_transcript"
  THEN IF Critical(c.reply)
       THEN getMeetingTranscript(c.params.recording_id, c.reply).message
       ELSE NoError
  ELSE IF ~c.reply.ok THEN handleError(c.reply)
  ELSE IF \E k \in 1..Len(c.arrivals) : Critical(c.arrivals[k][2])
  THEN LET k == CHOOSE k \in 1..Len(c.arrivals) :
                  /\ Critical(c.arrivals[k][2])
                  /\ \A j \in 1..(k - 1) : ~Critical(c.arrivals[j][2])
       IN getMeetingTranscript(RecordingAt(c, c.arrivals[k][1]),
                               c.arrivals[k][2]).message
  ELSE NoError

Alone(c) ==
  CallToolHttp(c.name, c.args, [reply |-> c.reply, arrivals |-> c.arrivals])

SessionRegistered ==
  /\ HandlerSid \in DOMAIN transports
  /\ tr[transports[HandlerSid]].state = "active"

(***************************************************************************)
(* C11.  Whenever the handling of an invocation raised an error (the       *)
(* arguments fail validation, the tool is unknown, an upstream call        *)
(* failed), the handler returns an envelope flagged as an error whose      *)
(* content is that error's message; the session is still registered with   *)
(* its transport active; and an invocation the session issues after one    *)
(* that ended in an error gets the envelope the dispatcher computes for it *)
(* alone.                                                                  *)
(***************************************************************************)
C11_FailuresCaught ==
  Returned =>
    /\ RaisedError(TheCall) # NoError =>
         TheCall.env = [isError |-> TRUE,
                        content |-> [error |-> RaisedError(TheCall)]]
    /\ SessionRegistered
    /\ TheCall.after = "error" => TheCall.env = Alone(TheCall)

C11_Witness ==
  /\ Returned
  /\ TheCall.after = "error"
  /\ TheCall.name = "search_meetings"
  /\ ~TheCall.env.isError
  /\ TheCall.env.content.total_found > 0
  /\ SessionRegistered

\* line 49: z.object({}), the schema declared for list_teams
ListTeamsSchema == [required |-> {}, types |-> NoDefaults, defaults |-> NoDefaults]

SchemaOf(name) ==
  IF name = "list_teams" THEN ListTeamsSchema ELSE HttpSchemas[name]

Started == TheCall.pc # "idle"

(***************************************************************************)
(* C12.  For each of the seven operations, an invocation whose argument    *)
(* object fails the operation's schema has issued no upstream request, at  *)
(* any point of its handling.                                              *)
(***************************************************************************)
C12_ValidatedBeforeUpstream ==
  \A name \in DeclaredTools :
    (Started /\ TheCall.name = name /\ Parse(SchemaOf(name), TheCall.args).throws)
      => TheCall.sent = <<>>

(***************************************************************************)
(* C13.  An invocation whose name is none of the seven declared tools      *)
(* returns, in the step that receives it, the error envelope whose message *)
(* is "Unknown tool: " followed by the name, and it has issued no upstream *)
(* request.                                                                *)
(***************************************************************************)
C13_UnknownToolRejected ==
  (Started /\ TheCall.name \notin DeclaredTools) =>
    /\ Returned
    /\ TheCall.env = [isError |-> TRUE,
                      content |-> [error |-> <<"Unknown tool: ", TheCall.name, "">>]]
    /\ TheCall.sent = <<>>

C13_Witness ==
  /\ Returned
  /\ TheCall.name = "export_meeting"
  /\ TheCall.env.isError
  /\ TheCall.after = "result"

TranscriptFetch(request) == request.op = "GET /recordings/:id/transcript"

FetchesSent(c) == {k \in 1..Len(c.sent) : TranscriptFetch(c.sent[k])}

\* search_meetings accepted with the given value of include_transcript
Searching(c, includeTranscript) ==
  /\ c.name = "search_meetings"
  /\ c.pc # "idle"
  /\ ~ValidationFails(c)
  /\ c.params.include_transcript = includeTranscript

(***************************************************************************)
(* C14.  At no point of a search_meetings invocation with                  *)
(* include_transcript = false has a transcript fetch been issued, whatever *)
(* listing the upstream returned: the only request is the listing call.    *)
(***************************************************************************)
C14_NoFetchWithoutTranscript ==
  Searching(TheCall, "false") =>
    /\ FetchesSent(TheCall) = {}
    /\ Len(TheCall.sent) = 1
    /\ TheCall.sent[1].op = "GET /meetings"

C14_Witness ==
  /\ Searching(TheCall, "false")
  /\ Returned
  /\ ~TheCall.env.isError
  /\ Len(TheCall.reply.data.items) = MaxListing
  /\ TheCall.env.content.total_found = 1

Listed(c) == c.reply.data.items

CarryingRecordingId(c) ==
  {i \in 1..Len(Listed(c)) : Listed(c)[i].recording_id # Absent}

(***************************************************************************)
(* C15.  At every point of a search_meetings invocation with               *)
(* include_transcript = true, at most 10 transcript fetches have been      *)
(* issued, however many meetings the listing returned, and every fetch     *)
(* issued asks for the recording identifier of a listed meeting that       *)
(* carries one: there are no more fetches than such meetings.              *)
(***************************************************************************)
C15_AtMostTenFetches ==
  Searching(TheCall, "true") =>
    /\ Cardinality(FetchesSent(TheCall)) <= 10
    /\ FetchesSent(TheCall) # {} =>
         /\ Cardinality(FetchesSent(TheCall))
              <= Cardinality(CarryingRecordingId(TheCall))
         /\ \A k \in FetchesSent(TheCall) :
              /\ TheCall.sent[k].id # Absent
              /\ \E i \in CarryingRecordingId(TheCall) :
                   Listed(TheCall)[i].recording_id = TheCall.sent[k].id

C15_Witness ==
  /\ Searching(TheCall, "true")
  /\ TheCall.pc = "fetching"
  /\ Cardinality(CarryingRecordingId(TheCall)) > 10
  /\ Cardinality(FetchesSent(TheCall)) = 10

\* the positions of the arrivals that are authorization or rate-limit failures
CriticalArrivals(c) ==
  {k \in 1..Len(c.arrivals) : Critical(c.arrivals[k][2])}

\* the condition a failed fetch reports: its kind, the recording, the status
ConditionOf(c, k) ==
  LET recording == RecordingAt(c, c.arrivals[k][1])
      status == c.arrivals[k][2].v
  IN IF status = "429"
     THEN <<"Rate limit exceeded while fetching transcript ", recording, "">>
     ELSE <<"Authentication error accessing transcript ", recording, status>>

(***************************************************************************)
(* C16.  As soon as one transcript fetch of a search batch has failed with *)
(* status 401, 403 or 429, the search_meetings invocation has returned,    *)
(* its envelope is flagged as an error, its content is the message of such *)
(* a failed fetch and nothing else (no list of matches), and it stays so   *)
(* whatever the other fetches return and in whatever order.                *)
(***************************************************************************)
C16_CriticalFetchFailsSearch ==
  (Searching(TheCall, "true") /\ CriticalArrivals(TheCall) # {}) =>
    /\ Returned
    /\ TheCall.env.isError
    /\ DOMAIN TheCall.env.content = {"error"}
    /\ \E k \in CriticalArrivals(TheCall) :
         TheCall.env.content.error = ConditionOf(TheCall, k)

C16_Witness ==
  /\ Searching(TheCall, "true")
  /\ Returned
  /\ TheCall.pending = {}
  /\ Len(TheCall.arrivals) = 2
  /\ TheCall.arrivals[1][2].k = "text"
  /\ TheCall.arrivals[1][1] = 2
  /\ Critical(TheCall.arrivals[2][2])
  /\ TheCall.env.isError

\* a fetch that did not return a transcript and is no critical failure: not
\* found, server error, no response, or a body of an unexpected shape
NonCritical(reply) == reply.k # "text" /\ ~Critical(reply)

\* meeting.transcript of the meeting at position i of the batch
TranscriptOf(c, i) == heap[c.items[i]].transcript

(***************************************************************************)
(* C17.  When a search_meetings invocation with transcript search has      *)
(* returned and no fetch of its batch failed with 401, 403 or 429, its     *)
(* envelope is a normal result, every fetch of the batch has returned, a   *)
(* meeting whose fetch failed otherwise (not found, server error, network  *)
(* error, unexpected body) has no transcript, and a meeting whose fetch    *)
(* returned a text has that text as its transcript.                        *)
(***************************************************************************)
C17_NonCriticalFetchSkipped ==
  (/\ Searching(TheCall, "true")
   /\ Returned
   /\ TheCall.reply.ok
   /\ CriticalArrivals(TheCall) = {}) =>
    /\ ~TheCall.env.isError
    /\ TheCall.pending = {}
    /\ Len(TheCall.arrivals) = Cardinality(FetchesSent(TheCall))
    /\ \A k \in 1..Len(TheCall.arrivals) :
         LET i == TheCall.arrivals[k][1]
             reply == TheCall.arrivals[k][2]
         IN TranscriptOf(TheCall, i) =
              IF NonCritical(reply) \/ reply.v = "" THEN Absent ELSE reply.v

C17_Witness ==
  /\ Searching(TheCall, "true")
  /\ Returned
  /\ ~TheCall.env.isError
  /\ Len(TheCall.arrivals) = 2
  /\ TheCall.arrivals[1][2] = [k |-> "text", v |-> "A"]
  /\ TheCall.arrivals[2][2] = [k |-> "status", v |-> "500"]
  /\ TheCall.env.content.total_found = 1
  /\ TheCall.env.content.meetings[1].relevance = "Found in transcript"

\* the text the fetch for position i of the listing returned, if it returned
\* a text that is not empty
FetchedText(c, i) ==
  IF \E k \in 1..Len(c.arrivals) :
       /\ c.arrivals[k][1] = i
       /\ c.arrivals[k][2].k = "text"
       /\ c.arrivals[k][2].v # ""
  THEN (CHOOSE r \in {c.arrivals[k][2] : k \in {k \in 1..Len(c.arrivals) :
                                                  c.arrivals[k][1] = i}} : TRUE).v
  ELSE Absent

\* the listed meetings, each with the transcript text fetched for it, or
\* else the one the listing gave it
ListedWithTranscripts(c) ==
  [i \in 1..Len(Listed(c)) |->
     [Listed(c)[i] EXCEPT !.transcript =
        IF FetchedText(c, i) # Absent THEN FetchedText(c, i) ELSE @]]

\* the lowercased term is a substring of the lowercased field
TermIn(field, term) ==
  field # Absent /\ includes(toLowerCase(field), toLowerCase(term))

TermFound(meeting, term, inTranscript) ==
  \/ TermIn(meeting.title, term)
  \/ TermIn(meeting.meeting_title, term)
  \/ TermIn(meeting.default_summary, term)
  \/ \E k \in 1..Len(meeting.action_items) :
       /\ meeting.action_items[k].string
       /\ TermIn(meeting.action_items[k].text, term)
  \/ inTranscript /\ TermIn(meeting.transcript, term)

\* the envelope that returns exactly the meetings of a sequence that match
Matching(c, meetings) ==
  HttpSearchResult(c.params,
    SelectSeq(meetings,
              LAMBDA m : TermFound(m, c.params.search_term,
                                   IncludeTranscript(c.params))))

SearchReturned(c) ==
  /\ c.name = "search_meetings"
  /\ c.pc = "done"
  /\ ~c.env.isError

(***************************************************************************)
(* C18 as stated.  A search_meetings invocation that returns a result      *)
(* returns exactly the listed meetings in which the lowercased search term *)
(* is found, without regard to case, in the title, the alternate title,    *)
(* the summary, an action item or, with transcript search, the transcript. *)
(***************************************************************************)
C18_ListedReturnedIffMatch ==
  SearchReturned(TheCall) =>
    TheCall.env = Matching(TheCall, ListedWithTranscripts(TheCall))

(***************************************************************************)
(* C18 amended.  With transcript search the meetings considered are the    *)
(* first 10 of the listing only, and without it all listed meetings; of    *)
(* those, exactly the ones are returned in which the lowercased search     *)
(* term is a substring of the lowercased title, alternate title, summary,  *)
(* an action item that is a string or, with transcript search, the         *)
(* transcript text fetched for the meeting.                                *)
(***************************************************************************)
C18_ConsideredReturnedIffMatch ==
  SearchReturned(TheCall) =>
    TheCall.env =
      Matching(TheCall,
               IF IncludeTranscript(TheCall.params)
               THEN Slice(ListedWithTranscripts(TheCall), 10)
               ELSE ListedWithTranscripts(TheCall))

C18_Witness ==
  /\ SearchReturned(TheCall)
  /\ IncludeTranscript(TheCall.params)
  /\ Len(Listed(TheCall)) > 10
  /\ TermFound(Listed(TheCall)[Len(Listed(TheCall))],
               TheCall.params.search_term, TRUE)
  /\ TheCall.env.content.total_found = 0

\* the replies of the fetches that have returned, in the order of the
\* listing instead of the order of arrival
InListingOrder(arrivals) ==
  LET positions == {arrivals[k][1] : k \in 1..Len(arrivals)}
  IN [n \in 1..Cardinality(positions) |->
        arrivals[CHOOSE k \in 1..Len(arrivals) :
                   Cardinality({q \in positions : q < arrivals[k][1]}) = n - 1]]

\* the envelope of the invocation had its fetches completed in listing order
AloneInListingOrder(c) ==
  CallToolHttp(c.name, c.args,
               [reply |-> c.reply, arrivals |-> InListingOrder(c.arrivals)])

BatchOver(c) == c.pc = "done" /\ c.pending = {}

(***************************************************************************)
(* C19 as stated.  Once every fetch of the batch of a search_meetings      *)
(* invocation with transcript search has returned, the envelope of the     *)
(* invocation is the one it has when the same fetches, with the same       *)
(* replies, complete in listing order: the output does not depend on the   *)
(* order of completion.                                                    *)
(***************************************************************************)
C19_SameUnderEveryInterleaving ==
  (Searching(TheCall, "true") /\ BatchOver(TheCall)) =>
    TheCall.env = AloneInListingOrder(TheCall)

(***************************************************************************)
(* C19 amended.  A search_meetings invocation with transcript search that  *)
(* returns a result does so after every fetch of its batch has returned,   *)
(* and the result is the one it has when the fetches complete in listing   *)
(* order, with the meetings in listing order.  One that returns an error   *)
(* because fetches failed with 401, 403 or 429 reports the failure that    *)
(* completed first.                                                        *)
(***************************************************************************)
C19_ResultSameUnderEveryInterleaving ==
  Searching(TheCall, "true") =>
    /\ SearchReturned(TheCall) =>
         /\ TheCall.pending = {}
         /\ Len(TheCall.arrivals) = Cardinality(FetchesSent(TheCall))
         /\ TheCall.env = AloneInListingOrder(TheCall)
    /\ (Returned /\ CriticalArrivals(TheCall) # {}) =>
         \E k \in CriticalArrivals(TheCall) :
           /\ \A j \in CriticalArrivals(TheCall) : k <= j
           /\ TheCall.env.content.error = ConditionOf(TheCall, k)

C19_Witness ==
  /\ SearchReturned(TheCall)
  /\ Len(TheCall.arrivals) = 2
  /\ TheCall.arrivals[1][1] > TheCall.arrivals[2][1]
  /\ TheCall.env.content.total_found = 2
  /\ TheCall.env.content.meetings[1].recording_id = "r1"
  /\ TheCall.env.content.meetings[2].recording_id = "r2"

\* the upstream has no transcript for the recording yet: status 404, or a
\* transcript that renders to the empty text
NoTranscriptYet(reply) ==
  \/ reply = [k |-> "status", v |-> "404"]
  \/ reply = [k |-> "text", v |-> ""]

(***************************************************************************)
(* C20.  get_meeting_transcript with valid arguments, for a recording the  *)
(* upstream has no transcript of yet, returns over every transport an      *)
(* envelope that is not flagged as an error and whose text is the message  *)
(* "No transcript available for recording <id>...", with summarize set or  *)
(* not.                                                                    *)
(***************************************************************************)
C20_NoTranscriptIsNotAnError ==
  (/\ inv.name = "get_meeting_transcript"
   /\ "recording_id" \in DOMAIN inv.args
   /\ NoTranscriptYet(inv.up.reply)) =>
    \A t \in DOMAIN env :
      /\ ~env[t].isError
      /\ env[t].content.text =
           <<"No transcript available for recording ", inv.args.recording_id, "">>

C20_Witness ==
  /\ DOMAIN env = Transports
  /\ inv.name = "get_meeting_transcript"
  /\ inv.args = [recording_id |-> "r1", summarize |-> "true"]
  /\ inv.up.reply = [k |-> "status", v |-> "404"]
  /\ ~env["stdio"].isError


\* the transcript request failed: an error status other than 404 (not yet
\* available), or no response at all
FetchFailed(reply) ==
  \/ reply.k = "network"
  \/ reply.k = "status" /\ reply.v # "404"

\* the envelope the caller gets when the upstream reports the transcript as
\* not yet available
AbsentTranscript(args) ==
  CallToolHttp("get_meeting_transcript", args,
               [reply |-> [k |-> "status", v |-> "404"], arrivals |-> <<>>])

(***************************************************************************)
(* C21.  get_meeting_transcript whose transcript request failed (an error  *)
(* status other than 404, or no response) never returns, over any          *)
(* transport, the envelope it returns for a transcript that is not yet     *)
(* available: the failure is reported as an error, not as an absent        *)
(* transcript.                                                             *)
(***************************************************************************)
C21_FailureDistinctFromAbsence ==
  (/\ inv.name = "get_meeting_transcript"
   /\ "recording_id" \in DOMAIN inv.args
   /\ FetchFailed(inv.up.reply)) =>
    \A t \in DOMAIN env :
      /\ env[t] # AbsentTranscript(inv.args)
      /\ env[t].isError


\* the caller's limit: the number sent, or the schema's default
LimitOf(args) == IF "limit" \in DOMAIN args THEN NumOf(args.limit) ELSE 50

\* list_meetings whose arguments the schema accepts, answered with a listing
ListingShown ==
  /\ inv.name = "list_meetings"
  /\ ~Parse(HttpSchemas.list_meetings, inv.args).throws
  /\ inv.up.reply.ok

(***************************************************************************)
(* C22.  list_meetings with arguments the schema accepts, against a        *)
(* listing of n items, returns over every transport the first              *)
(* min(limit, n) items in listing order, `showing` equal to that number    *)
(* and `total_found` equal to n (limit 50 when the caller sends none).     *)
(***************************************************************************)
C22_LimitApplied ==
  ListingShown =>
    \A t \in DOMAIN env :
      LET items == inv.up.reply.data.items
          shown == Min(LimitOf(inv.args), Len(items))
          content == env[t].content
      IN /\ ~env[t].isError
         /\ content.total_found = Len(items)
         /\ content.showing = shown
         /\ Len(content.meetings) = shown
         /\ \A i \in 1..Len(content.meetings) :
              /\ i <= Len(items)
              /\ content.meetings[i].recording_id = items[i].recording_id
              /\ content.meetings[i].title = items[i].title


\* the upstream listing calls the invocation has issued
ListingCalls(c) == {k \in 1..Len(c.sent) : c.sent[k].op = "GET /meetings"}

(***************************************************************************)
(* C23.  No listing request sent upstream carries include_transcript,      *)
(* whether list_meetings or search_meetings issued it and whatever value   *)
(* the caller gave the flag; the other parameters that are set are sent.   *)
(***************************************************************************)
C23_IncludeTranscriptNotForwarded ==
  \A k \in ListingCalls(TheCall) :
    /\ "include_transcript" \notin DOMAIN TheCall.sent[k].params
    /\ TheCall.name = "list_meetings" =>
         TheCall.sent[k].params.meeting_type = TheCall.params.meeting_type

C23_Witness ==
  /\ TheCall.name = "list_meetings"
  /\ Returned
  /\ ~TheCall.env.isError
  /\ TheCall.params.include_transcript = "true"
  /\ ListingCalls(TheCall) = {1}
  /\ DOMAIN TheCall.sent[1].params = {"meeting_type"}


\* the process has handled a request or constructed a transport
Served ==
  \/ ~NothingConstructed
  \/ env # EmptyTable

(***************************************************************************)
(* C24.  A process started without the credential (the variable not set,   *)
(* or set to the empty string) never gets past the top of its module: it   *)
(* is either still loading or has exited with code 1, it never listens or  *)
(* connects a transport, and it has handled no request and constructed no  *)
(* transport.  This holds for the HTTP and for the stdio server.           *)
(***************************************************************************)
C24_NoCredentialNoService ==
  boot.apiKey \in {Absent, ""} =>
    /\ boot.pc \in {"load", "exited"}
    /\ boot.pc = "exited" => boot.exit = "1"
    /\ ~Served

C24_Witness ==
  /\ boot.apiKey = ""
  /\ boot.server = "http"
  /\ boot.pc = "exited"
  /\ boot.exit = "1"
  /\ ~Served


\* the positions of the listing whose meeting holds the term in its title,
\* alternate title, summary or an action item
MetadataMatches(c) ==
  {i \in 1..Len(Listed(c)) :
     TermFound(Listed(c)[i], c.params.search_term, FALSE)}

\* the n-th smallest element of a set of positions
NthOf(S, n) == CHOOSE i \in S : Cardinality({j \in S : j < i}) = n - 1

(***************************************************************************)
(* C25.  A search_meetings invocation with include_transcript = false that *)
(* got a listing returns a result with exactly the listed meetings that    *)
(* hold the term in title, alternate title, summary or action items, in    *)
(* listing order, however long the listing is; a listed meeting whose only *)
(* match is its transcript text is not among them, and every meeting       *)
(* returned is marked as found in title/summary.                           *)
(***************************************************************************)
C25_MetadataSearchUncapped ==
  (Searching(TheCall, "false") /\ Returned /\ TheCall.reply.ok) =>
    LET matches == MetadataMatches(TheCall)
        content == TheCall.env.content
    IN /\ ~TheCall.env.isError
       /\ content.total_found = Cardinality(matches)
       /\ Len(content.meetings) = Cardinality(matches)
       /\ \A n \in 1..Len(content.meetings) :
            LET listed == Listed(TheCall)[NthOf(matches, n)]
            IN /\ content.meetings[n].title =
                    OrElse(listed.title, listed.meeting_title)
               /\ content.meetings[n].recording_id = listed.recording_id
               /\ content.meetings[n].summary = listed.default_summary
               /\ content.meetings[n].action_items = listed.action_items
               /\ content.meetings[n].relevance = "Found in title/summary"

C25_Witness ==
  /\ Searching(TheCall, "false")
  /\ Returned
  /\ TheCall.reply.ok
  /\ Len(Listed(TheCall)) > 10
  /\ MetadataMatches(TheCall) = {Len(Listed(TheCall))}
  /\ TheCall.env.content.total_found = 1
  /\ TheCall.env.content.meetings[1].title = "a"


\* the transport's connection has closed: terminated, disconnected, or ended
\* by close()
ConnectionClosed(t) == tr[t].state \in {"ended", "closed"}

(***************************************************************************)
(* C26.  In every reachable state no entry of the session table maps to a  *)
(* transport whose connection has closed: a close by DELETE /mcp, by the   *)
(* disconnect of an event-stream client or by the shutdown loop removes    *)
(* the entry in the step that closes the connection.                       *)
(***************************************************************************)
C26_NoClosedTransportInTable ==
  \A k \in DOMAIN transports : ~ConnectionClosed(transports[k])


\* the webhook requests answered so far
WebhookLog == upstream.log

\* before request j, the tool created the webhook id / deleted it
CreatedBefore(id, j) ==
  \E i \in 1..(j - 1) :
    WebhookLog[i].op = "POST" /\ WebhookLog[i].id = id /\ ~WebhookLog[i].isError

DeletedBefore(id, j) ==
  \E i \in 1..(j - 1) :
    WebhookLog[i].op = "DELETE" /\ WebhookLog[i].id = id /\ ~WebhookLog[i].isError

(***************************************************************************)
(* C27.  Against an upstream that keeps the webhooks it creates: deleting  *)
(* a webhook by the identifier create_webhook returned, for the first      *)
(* time, returns a result; every later deletion of the same identifier     *)
(* returns an envelope flagged as an error that carries the upstream's     *)
(* error message; the session stays registered and the process running,    *)
(* and the invocation that follows is handled as if it were alone.         *)
(***************************************************************************)
C27_CreateDeleteRoundTrip ==
  /\ \A j \in 1..Len(WebhookLog) :
       WebhookLog[j].op = "DELETE" =>
         /\ (CreatedBefore(WebhookLog[j].id, j) /\ ~DeletedBefore(WebhookLog[j].id, j))
              => ~WebhookLog[j].isError
         /\ DeletedBefore(WebhookLog[j].id, j) => WebhookLog[j].isError
  /\ (Returned /\ TheCall.name = "delete_webhook" /\ TheCall.env.isError
        /\ ~ValidationFails(TheCall)) =>
       TheCall.env.content.error \in
         {<<"Fathom API error: ", "m", "">>, <<"AxiosError", "404", "">>}
  /\ SessionRegistered
  /\ proc = "running"
  /\ Returned => TheCall.env = Alone(TheCall)

C27_Witness ==
  /\ Len(WebhookLog) = 3
  /\ WebhookLog[1] = [op |-> "POST", id |-> "w1", isError |-> FALSE]
  /\ WebhookLog[2] = [op |-> "DELETE", id |-> "w1", isError |-> FALSE]
  /\ WebhookLog[3] = [op |-> "DELETE", id |-> "w1", isError |-> TRUE]
  /\ Returned
  /\ TheCall.name = "list_teams"
  /\ TheCall.after = "error"
  /\ ~TheCall.env.isError
  /\ SessionRegistered


\* the kind of error a message reports, by its fixed text
KindOf(message) ==
  CASE message[1] \in {"Rate limit exceeded. Please try again later.",
                       "Rate limit exceeded while fetching transcript "}
         -> "rate-limit"
    [] message[1] \in {"Invalid API key. Please check your Fathom API key.",
                       "Authentication error accessing transcript "}
         -> "invalid-credential"
    [] message[1] = "Fathom API error: " -> "upstream-message"
    [] OTHER -> "unknown"

\* the kind the fixed precedence gives a failed call: 429, else 401, else a
\* message in the error body, else unknown
NormalizedKind(failure) ==
  IF failure.status = "429" THEN "rate-limit"
  ELSE IF failure.status = "401" THEN "invalid-credential"
  ELSE IF failure.status # "none" /\ failure.message # Absent
  THEN "upstream-message"
  ELSE "unknown"

\* the failure of the invocation's upstream call, if it failed; the error
\* body of a failed transcript request carries no message
UpstreamFailure(i) ==
  IF i.name = "get_meeting_transcript"
  THEN [ok |-> ~FetchFailed(i.up.reply),
        status |-> IF i.up.reply.k = "status" THEN i.up.reply.v ELSE "none",
        message |-> Absent]
  ELSE i.up.reply

Accepted(i) ==
  /\ i.name \in DeclaredTools
  /\ i.name # "list_teams" => ~Parse(HttpSchemas[i.name], i.args).throws

(***************************************************************************)
(* C28.  An invocation whose upstream call failed returns, over every      *)
(* transport, an error envelope whose message is of the kind the fixed     *)
(* precedence gives the failure: rate limit for 429, else invalid          *)
(* credential for 401, else the upstream's message when the error body     *)
(* carries one (with that text), else unknown.                             *)
(***************************************************************************)
C28_OneNormalization ==
  (Accepted(inv) /\ ~UpstreamFailure(inv).ok) =>
    \A t \in DOMAIN env :
      /\ env[t].isError
      /\ KindOf(env[t].content.error) = NormalizedKind(UpstreamFailure(inv))
      /\ NormalizedKind(UpstreamFailure(inv)) = "upstream-message" =>
           env[t].content.error[2] = UpstreamFailure(inv).message


\* the recordings the transcript fetches issued so far ask for, in the
\* order they were issued
FetchedRecordings(c) ==
  LET fetches == SelectSeq(c.sent, TranscriptFetch)
  IN [n \in 1..Len(fetches) |-> fetches[n].id]

(***************************************************************************)
(* C29.  Once a search_meetings invocation with transcript search has got  *)
(* its listing, the transcript fetches it has issued ask, in listing       *)
(* order, for the recordings of the first min(10, k) of the k listed       *)
(* meetings that carry a recording identifier.                             *)
(***************************************************************************)
C29_CapCountsRecordingsOnly ==
  (/\ Searching(TheCall, "true")
   /\ TheCall.pc \in {"fetching", "done"}
   /\ TheCall.reply.ok) =>
    LET carrying == CarryingRecordingId(TheCall)
        expected == Min(10, Cardinality(carrying))
    IN FetchedRecordings(TheCall) =
         [n \in 1..expected |-> Listed(TheCall)[NthOf(carrying, n)].recording_id]


\* the transport is constructed and its session is initializing, or its
\* initialization was refused
Unregistered(t) == tr[t].state \in {"connecting", "refused"}

RegisteredTransports == {transports[k] : k \in DOMAIN transports}

\* every entry of the table maps an allocated identifier to a transport
\* that bears it and has been connected to its server
EntriesConnected ==
  \A k \in DOMAIN transports :
    /\ k \in Issued
    /\ tr[transports[k]].sid = k
    /\ tr[transports[k]].state \notin {"unused", "connecting", "refused"}

(***************************************************************************)
(* C30.  A streamable transport whose session is initializing, or whose    *)
(* initialization was refused, has no identifier and is under no key of    *)
(* the session table; every entry of the table maps an allocated           *)
(* identifier to a connected transport bearing it; the request that        *)
(* constructs a transport and a refused initialization leave the table     *)
(* unchanged, and a completed initialization adds exactly the entry of     *)
(* the new identifier.                                                     *)
(***************************************************************************)
C30_RegisteredOnlyWhenInitialized ==
  /\ [](/\ \A t \in TransportIds :
            Unregistered(t) =>
              /\ tr[t].kind = "streamable"
              /\ tr[t].sid = NoSid
              /\ t \notin RegisteredTransports
        /\ EntriesConnected)
  /\ [][/\ last'.why = "connecting" =>
            ((\E r \in McpReqs : McpRequest(r)) => UNCHANGED transports)
        /\ \A t \in TransportIds :
             /\ McpConnected(t, FALSE) => UNCHANGED <<transports, uuidCount>>
             /\ McpConnected(t, TRUE) =>
                  /\ tr[t].sid = NoSid
                  /\ t \notin RegisteredTransports
                  /\ transports' = Put(transports, tr'[t].sid, t)
                  /\ tr'[t].sid \notin Issued]_vars

C30_Witness ==
  /\ tr[1].state = "active"
  /\ tr[1].kind = "streamable"
  /\ DOMAIN transports = {tr[1].sid}
  /\ tr[2].state = "connecting"
  /\ tr[2].sid = NoSid
  /\ last.why = "connecting"
  /\ last.by = 2


(***************************************************************************)
(* C31.  Of two tool invocations of one session, the one whose frame       *)
(* arrived first is dispatched first, and its result is produced first:    *)
(* the second invocation has not started before the first, and it has not  *)
(* returned while the first is still waiting for its upstream calls.       *)
(***************************************************************************)
C31_ResultsInArrivalOrder ==
  /\ calls[SecondFrame].pc # "idle" => calls[FirstFrame].pc # "idle"
  /\ calls[SecondFrame].pc = "done" => calls[FirstFrame].pc = "done"


\* transcript search is active unless the arguments switch it off
TranscriptSearchActive(args) ==
  "include_transcript" \in DOMAIN args => args.include_transcript = "true"

SearchServed(t) ==
  /\ inv.name = "search_meetings"
  /\ t \in DOMAIN env
  /\ ~env[t].isError

(***************************************************************************)
(* C32.  Every item of a search result is labelled "Found in transcript"   *)
(* exactly when transcript search was active and the item's transcript     *)
(* text contains the lowercased search term, and "Found in title/summary"  *)
(* otherwise; with transcript search inactive every item is labelled       *)
(* "Found in title/summary".                                               *)
(***************************************************************************)
C32_RelevanceLabel ==
  \A t \in Transports :
    SearchServed(t) =>
      \A i \in 1..Len(env[t].content.meetings) :
        LET item == env[t].content.meetings[i] IN
        item.relevance =
          IF /\ TranscriptSearchActive(inv.args)
             /\ TermIn(item.transcript, inv.args.search_term)
          THEN "Found in transcript"
          ELSE "Found in title/summary"

\* a result of a transcript search carrying both labels
C32_Witness ==
  \E t \in Transports :
    /\ SearchServed(t)
    /\ TranscriptSearchActive(inv.args)
    /\ \E i, j \in 1..Len(env[t].content.meetings) :
         /\ env[t].content.meetings[i].relevance = "Found in transcript"
         /\ TermIn(env[t].content.meetings[i].title, inv.args.search_term)
         /\ env[t].content.meetings[j].relevance = "Found in title/summary"


\* the invocation reached its operation of the client
Operating(c) ==
  /\ c.pc # "idle"
  /\ c.name \in DeclaredTools
  /\ ~ValidationFails(c)

\* one listing call over the last 30 days, then the transcript fetches
SearchCalls(c) ==
  /\ ListingCalls(c) = {1}
  /\ c.sent[1].params = [created_after |-> "30 days ago"]
  /\ FetchesSent(c) = 2..Len(c.sent)
  /\ Cardinality(FetchesSent(c)) <= maxTranscripts

UpstreamCallsBounded ==
  /\ Operating(TheCall) /\ TheCall.name = "search_meetings" =>
       SearchCalls(TheCall)
  /\ Operating(TheCall) /\ TheCall.name # "search_meetings" =>
       Len(TheCall.sent) = 1
  /\ ~Operating(TheCall) => TheCall.sent = <<>>

(***************************************************************************)
(* C33.  Every tool invocation terminates, provided each upstream call     *)
(* returns or fails, and issues a bounded number of upstream calls without *)
(* retry: search_meetings issues exactly one listing call, over the last   *)
(* 30 days and without a second page, followed by at most 10 transcript    *)
(* fetches; every other operation issues exactly one upstream call.        *)
(***************************************************************************)
C33_BoundedUpstreamCalls ==
  /\ []UpstreamCallsBounded
  /\ Started ~> Returned

\* a search that returned after a listing with a next cursor, and a search
\* over a listing of more than 10 meetings, fetched 10 transcripts
C33_Witness ==
  /\ Returned
  /\ TheCall.name = "search_meetings"
  /\ Operating(TheCall)
  /\ TheCall.reply.ok
  /\ \/ TheCall.reply.data.next_cursor # Absent
     \/ Cardinality(FetchesSent(TheCall)) = maxTranscripts


RECURSIVE LinesOf(_)
\* the lines of a text that is not empty: its pieces between line breaks
LinesOf(text) ==
  IF \E k \in 1..Len(text) : text[k] = "\n"
  THEN LET k == CHOOSE k \in 1..Len(text) :
                  /\ text[k] = "\n"
                  /\ \A j \in 1..(k - 1) : text[j] # "\n"
       IN <<SubSeq(text, 1, k - 1)>> \o LinesOf(SubSeq(text, k + 1, Len(text)))
  ELSE <<text>>

\* "[timestamp] speaker: text" for a segment
LineFor(segment) ==
  <<"[", IF segment.timestamp = Absent THEN "" ELSE segment.timestamp, "] ",
    IF segment.speaker \in {Absent, ""} THEN "Unknown Speaker"
    ELSE segment.speaker,
    ": ", IF segment.text = Absent THEN "" ELSE segment.text>>

Rendered == "text" \in DOMAIN env

(***************************************************************************)
(* C34.  A transcript the upstream returns as a sequence of segments is    *)
(* rendered as one text whose line i is "[timestamp] speaker: text" of     *)
(* segment i, in source order, no segment dropped or reordered; the empty  *)
(* sequence renders as the empty text.                                     *)
(***************************************************************************)
C34_SegmentPerLine ==
  Rendered =>
    LET transcript == inv.up.reply.v IN
    IF transcript = <<>> THEN env["text"] = <<>>
    ELSE /\ Len(LinesOf(env["text"])) = Len(transcript)
         /\ \A i \in 1..Len(transcript) :
              LinesOf(env["text"])[i] = LineFor(transcript[i])

\* three segments rendered, one of them saying nothing, one without speaker
C34_Witness ==
  /\ Rendered
  /\ Len(inv.up.reply.v) = MaxSegments
  /\ inv.up.reply.v[1].text = ""
  /\ inv.up.reply.v[2].speaker = Absent
  /\ inv.up.reply.v[3] # inv.up.reply.v[2]


\* the text the upstream's answer to a transcript fetch carries, empty when
\* it carries none
TextOf(reply) == IF reply.k = "text" THEN reply.v ELSE ""

TranscriptServed(t) ==
  /\ inv.name = "get_meeting_transcript"
  /\ t \in DOMAIN env
  /\ ~env[t].isError

Summarize(args) ==
  "summarize" \in DOMAIN args /\ args.summarize = "true"

(***************************************************************************)
(* C35.  get_meeting_transcript returns the transcript text behind the     *)
(* instruction prefix exactly when summarize is true and the transcript is *)
(* not empty; for an empty transcript it returns the explanatory message   *)
(* without the prefix, and with summarize false or left out the transcript *)
(* text unchanged.                                                         *)
(***************************************************************************)
C35_SummarizePrefix ==
  \A t \in Transports :
    TranscriptServed(t) =>
      env[t].content.text =
        IF TextOf(inv.up.reply) = ""
        THEN <<"No transcript available for recording ",
               inv.args.recording_id, "">>
        ELSE IF Summarize(inv.args)
        THEN <<"Please summarize this meeting transcript:",
               TextOf(inv.up.reply), "">>
        ELSE <<"", TextOf(inv.up.reply), "">>

\* summarize asked for and a transcript that is not empty, on every server
C35_Witness ==
  /\ DOMAIN env = Transports
  /\ \A t \in Transports : TranscriptServed(t)
  /\ Summarize(inv.args)
  /\ TextOf(inv.up.reply) = "a"
  /\ env["streamable"].content.text[1] =
       "Please summarize this meeting transcript:"


\* the search batch of the invocation was aborted by a fatal fetch failure
Aborted(c) ==
  /\ c.name = "search_meetings"
  /\ c.pc = "done"
  /\ c.env.isError
  /\ CriticalArrivals(c) # {}

\* a fetch of an aborted batch completes and attaches its transcript
LateWrite(s) ==
  /\ Aborted(calls[s])
  /\ Len(calls'[s].arrivals) = Len(calls[s].arrivals) + 1
  /\ heap' # heap

LateWriteUnobserved ==
  \A s \in Sessions :
    /\ Aborted(calls[s]) /\ calls'[s].pc = "done" =>
         calls'[s].env = calls[s].env
    /\ LateWrite(s) =>
         \A o \in Sessions \ {s} :
           /\ calls'[o] = calls[o]
           /\ Deref(heap', calls[o].items) = Deref(heap, calls[o].items)

(***************************************************************************)
(* C36.  After a search batch aborted on a fatal transcript-fetch failure  *)
(* its other fetches still complete and attach their transcript to their   *)
(* meeting record, but no such late write shows in a result: the result of *)
(* the aborted invocation stays as it was, the write touches no record of  *)
(* another invocation, and every result returned, by any session, is the   *)
(* one its invocation has from its own upstream answers.                   *)
(***************************************************************************)
C36_LateWritesUnobservable ==
  /\ [][LateWriteUnobserved]_vars
  /\ [](\A o \in Sessions : calls[o].pc = "done" => calls[o].env = Alone(calls[o]))

\* a transcript attached after the abort, and a search of the other session
\* that listed afterwards and returned the same recording
C36_Witness ==
  \E s, o \in Sessions :
    /\ Aborted(calls[s])
    /\ \E k \in 2..Len(calls[s].arrivals) :
         /\ (k - 1) \in CriticalArrivals(calls[s])
         /\ calls[s].arrivals[k][2] = [k |-> "text", v |-> "a"]
         /\ heap[calls[s].items[calls[s].arrivals[k][1]]].transcript = "a"
    /\ SearchReturned(calls[o])
    /\ IncludeTranscript(calls[o].params)
    /\ calls[o].items # <<>>
    /\ calls[o].items[1] > calls[s].items[1]
    /\ calls[o].env.content.total_found = 0


\* the request went to the transport registered under its identifier
HandedToRegistered(sid, kind) ==
  last'.by # 0 =>
    /\ sid \in DOMAIN transports
    /\ transports[sid] = last'.by
    /\ tr[last'.by].sid = sid
    /\ tr[last'.by].kind = kind

\* the request went to no transport and made no session
Turned(sid) ==
  sid \notin Issued =>
    /\ last'.by = 0
    /\ last'.status = 400
    /\ UNCHANGED <<transports, tr, nextT, uuidCount, disp>>

(***************************************************************************)
(* C37.  A request carrying a session identifier is handed to a transport  *)
(* only if that transport is registered in the session table under exactly *)
(* that identifier and is of the endpoint's kind (streamable for /mcp,     *)
(* event-stream for /messages); a request carrying an identifier the       *)
(* server never issued, the name of a built-in object property included,   *)
(* is handed to no transport and creates no session.                       *)
(***************************************************************************)
C37_RoutedOnlyToRegistered ==
  [][/\ \A r \in McpReqs :
          (Truthy(r.sid) /\ McpRequest(r)) =>
            HandedToRegistered(r.sid, "streamable") /\ Turned(r.sid)
     /\ \A r \in MessageReqs :
          (Truthy(r.sid) /\ MessagesRequest(r)) =>
            HandedToRegistered(r.sid, "sse") /\ Turned(r.sid)]_vars

\* "constructor" sent as the identifier while sessions of both kinds exist
C37_Witness ==
  /\ last.sid = Builtin
  /\ last.ep = "/messages"
  /\ last.by = 0
  /\ \E k1, k2 \in DOMAIN transports :
       tr[transports[k1]].kind = "sse" /\ tr[transports[k2]].kind = "streamable"


\* a step of a tool invocation: the frame handed to the handler, or the
\* handler returning its envelope
InvocationStep ==
  \/ \E r \in McpReqs : r.body = "tools/call" /\ McpRequest(r)
  \/ \E r \in MessageReqs : r.body = "tools/call" /\ MessagesRequest(r)
  \/ \E t \in TransportIds : DispatchFinish(t)

\* the steps that write the session table
TableStep ==
  \/ \E t \in TransportIds : McpConnected(t, TRUE)
  \/ \E q \in SseReqs : SseConnect(q)
  \/ \E r \in McpReqs : r.method = "DELETE" /\ McpRequest(r)
  \/ \E t \in TransportIds : SseDisconnect(t)
  \/ \E ok \in BOOLEAN : Sigint(ok)
  \/ \E ok \in BOOLEAN : ShutdownResume(ok)

(***************************************************************************)
(* C38.  Handling a tool invocation never adds, removes or replaces an     *)
(* entry of the session table: the table changes only in a step of session *)
(* initialization, event-stream connect, transport close, client           *)
(* disconnect or shutdown.                                                 *)
(***************************************************************************)
C38_HandlerLeavesTable ==
  [][/\ InvocationStep => transports' = transports
     /\ transports' # transports => TableStep]_vars

\* an invocation returned while its session and another were registered
C38_Witness ==
  /\ last.ep = "dispatch"
  /\ last.why = "delivered"
  /\ last.sid \in DOMAIN transports
  /\ Cardinality(DOMAIN transports) = MaxTransports


\* the positions of the listing the transcript search considers
Candidates(c) == 1..Min(10, Len(Listed(c)))

\* a result item shows the listed meeting
Shows(item, meeting) ==
  /\ item.title = OrElse(meeting.title, meeting.meeting_title)
  /\ item.recording_id = meeting.recording_id
  /\ item.summary = meeting.default_summary
  /\ item.action_items = meeting.action_items

\* a listed meeting without recording identifier, as the listing endpoint
\* gives it: without transcript text
Unrecorded(meeting) ==
  meeting.recording_id = Absent /\ meeting.transcript = Absent

TranscriptSearchReturned(c) ==
  SearchReturned(c) /\ IncludeTranscript(c.params)

=============================================================================
